---- MODULE Spec2Model ----
(***************************************************************************)
(* Model of the metadata pipeline of the wealth-management portal:         *)
(*   - core/services/address_comparison_service.py  (address comparison    *)
(*     and the AddressMismatch ledger),                                    *)
(*   - core/services/box_metadata_application.py    (_sanitize_metadata,   *)
(*     _apply_metadata, _extract_metadata_values),                         *)
(*   - core/services/box_metadata_extraction.py     (the three extraction  *)
(*     operations, their fallbacks, _extract_with_box_ai),                 *)
(*   - core/services/document_processing_service.py (the per-document      *)
(*     pipeline),                                                          *)
(*   - core/views.py                                (onboarding save, the  *)
(*     mismatch resolution endpoints, the document processing views).      *)
(* Python strings are sequences of one-character strings, so that          *)
(* normalisation, similarity, date parsing and number parsing are computed *)
(* character by character as the library code computes them.               *)
(***************************************************************************)
EXTENDS Integers, Sequences, FiniteSets, Bags, TLC

VARIABLES
    onboarding,   \* ClientOnboardingInfo table: user -> NoInfo or the four address fields
    ledger,       \* AddressMismatch table: a set of rows
    cmp,          \* the last ledger operation and what it returned
    clsIn,        \* input of the pure comparison run (client address, extracted address)
    clsOut,       \* output of the pure comparison run
    remote,       \* Box metadata store: file -> template -> NoRecord or the record
    lastCall,     \* the last _apply_metadata call: arguments, requests sent, result
    sanIn,        \* input of a _sanitize_metadata run
    sanOut,       \* output of a _sanitize_metadata run
    extIn,        \* what the Box client answers during one extraction: file lookup, AI request
    extOut,       \* the last extraction-side or application-side operation and what it returned
    pipe,         \* one run of a per-document pipeline: what the services answer, the stages run
    batch,        \* one batch request: the futures, the worker threads, the results list
    inflight      \* comparisons running at the same time: each one's position and locals

vars ==
    <<onboarding, ledger, cmp, clsIn, clsOut, remote, lastCall, sanIn, sanOut, extIn, extOut,
      pipe, batch, inflight>>

ledgerVars == <<onboarding, ledger, cmp>>
clsVars == <<clsIn, clsOut>>
applyVars == <<remote, lastCall>>
sanVars == <<sanIn, sanOut>>
extVars == <<extIn, extOut>>
concVars == <<batch, inflight>>

-----------------------------------------------------------------------------
(* Python str primitives on character sequences                            *)

UpperCase == <<"A","B","C","D","E","F","G","H","I","J","K","L","M",
               "N","O","P","Q","R","S","T","U","V","W","X","Y","Z">>
LowerCase == <<"a","b","c","d","e","f","g","h","i","j","k","l","m",
               "n","o","p","q","r","s","t","u","v","w","x","y","z">>

Digits == <<"0","1","2","3","4","5","6","7","8","9">>

IsSpace(c) == c \in {" ", "\t", "\n"}

IsDigit(c) == \E i \in 1..10 : Digits[i] = c

DigitVal(c) == (CHOOSE i \in 1..10 : Digits[i] = c) - 1

LowerChar(c) ==
    IF \E i \in 1..26 : UpperCase[i] = c
    THEN LowerCase[CHOOSE i \in 1..26 : UpperCase[i] = c]
    ELSE c

\* Where a value computed once is read many times, it is bound with
\*     CHOOSE r \in {e(x) : x \in {v}} : TRUE
\* which is e(v) with v evaluated once (a LET is re-read at every use).

RECURSIVE LowerFrom(_, _)
LowerFrom(s, i) ==
    IF i > Len(s) THEN <<>> ELSE <<LowerChar(s[i])>> \o LowerFrom(s, i + 1)

\* str.lower()
str_lower(s) == CHOOSE r \in {LowerFrom(v, 1) : v \in {s}} : TRUE

StripValue(v) ==
    IF \A i \in 1..Len(v) : IsSpace(v[i]) THEN <<>>
    ELSE SubSeq(v,
                CHOOSE i \in 1..Len(v) : ~IsSpace(v[i]) /\ \A j \in 1..(i - 1) : IsSpace(v[j]),
                CHOOSE i \in 1..Len(v) : ~IsSpace(v[i]) /\ \A j \in (i + 1)..Len(v) : IsSpace(v[j]))

\* str.strip()
str_strip(s) == CHOOSE r \in {StripValue(v) : v \in {s}} : TRUE

StartsWithAt(s, i, old) ==
    /\ i + Len(old) - 1 <= Len(s)
    /\ SubSeq(s, i, i + Len(old) - 1) = old

RECURSIVE ReplaceFrom(_, _, _, _)
ReplaceFrom(s, i, old, new) ==
    IF i > Len(s) THEN <<>>
    ELSE IF StartsWithAt(s, i, old)
         THEN new \o ReplaceFrom(s, i + Len(old), old, new)
         ELSE <<s[i]>> \o ReplaceFrom(s, i + 1, old, new)

\* str.replace(old, new) for a non-empty old: leftmost, non-overlapping
str_replace(s, old, new) == CHOOSE r \in {ReplaceFrom(v, 1, old, new) : v \in {s}} : TRUE

RECURSIVE CollapseFrom(_, _)
CollapseFrom(s, i) ==
    IF i > Len(s) THEN <<>>
    ELSE IF IsSpace(s[i])
         THEN IF i > 1 /\ IsSpace(s[i - 1]) THEN CollapseFrom(s, i + 1)
              ELSE <<" ">> \o CollapseFrom(s, i + 1)
         ELSE <<s[i]>> \o CollapseFrom(s, i + 1)

\* ' '.join(s.split())
join_split(s) == CHOOSE r \in {CollapseFrom(v, 1) : v \in {str_strip(s)}} : TRUE

\* ', '.join(parts)
RECURSIVE join_comma(_)
join_comma(parts) ==
    IF parts = <<>> THEN <<>>
    ELSE IF Len(parts) = 1 THEN parts[1]
    ELSE parts[1] \o <<",", " ">> \o join_comma(Tail(parts))

-----------------------------------------------------------------------------
(* Address values.  A component is a character sequence, or None.          *)

None == <<"<None>">>

EmptyStr == <<>>

\* Python truthiness of a component: None and "" are falsy
Truthy(v) == v # None /\ v # EmptyStr

AddrKeys == {"street_address", "city", "state_province", "postal_code"}

\* dict.get(key, '')
DictGet(d, k) == IF k \in DOMAIN d THEN d[k] ELSE EmptyStr

normalize_address_component(component) ==
    IF ~Truthy(component) THEN EmptyStr
    ELSE LET n1 == str_strip(str_lower(component))
             n2 == str_replace(str_replace(str_replace(n1, <<",">>, <<>>), <<".">>, <<>>),
                               <<"#">>, <<"a","p","t"," ">>)
             n3 == str_replace(
                     str_replace(
                       str_replace(n2, <<"a","p","a","r","t","m","e","n","t">>, <<"a","p","t">>),
                       <<"u","n","i","t">>, <<"a","p","t">>),
                     <<"s","u","i","t","e">>, <<"s","t","e">>)
         IN join_split(n3)

-----------------------------------------------------------------------------
(* difflib.SequenceMatcher(None, a, b).ratio() without junk (both strings  *)
(* are far shorter than the 200 characters at which autojunk starts).      *)

RECURSIVE MatchLen(_, _, _, _, _, _)
MatchLen(a, b, i, j, ahi, bhi) ==
    IF i <= ahi /\ j <= bhi /\ a[i] = b[j]
    THEN 1 + MatchLen(a, b, i + 1, j + 1, ahi, bhi)
    ELSE 0

\* the largest size among the candidate blocks
BestSize(blocks) == CHOOSE k \in {t.k : t \in blocks} : \A t \in blocks : t.k <= k

\* of the blocks given, the earliest in a and, of those, the earliest in b
Earliest(blocks) ==
    CHOOSE t \in blocks : \A u \in blocks : t.i < u.i \/ (t.i = u.i /\ t.j <= u.j)

\* find_longest_match(alo, ahi, blo, bhi) on non-empty ranges: a longest
\* common block, of those the earliest in a, of those the earliest in b
find_longest_match(a, b, alo, ahi, blo, bhi) ==
    CHOOSE r \in
        {Earliest({t \in blocks : t.k = bestsize}) :
            <<blocks, bestsize>> \in
                {<<bl, BestSize(bl)>> :
                    bl \in {{[i |-> i, j |-> j, k |-> MatchLen(a, b, i, j, ahi, bhi)] :
                                i \in alo..ahi, j \in blo..bhi}}}} : TRUE

\* get_matching_blocks: total size of the blocks found recursively
RECURSIVE MatchCount(_, _, _, _, _, _)
MatchCount(a, b, alo, ahi, blo, bhi) ==
    IF alo > ahi \/ blo > bhi THEN 0
    ELSE CHOOSE r \in
            {IF m.k = 0 THEN 0
             ELSE m.k + MatchCount(a, b, alo, m.i - 1, blo, m.j - 1)
                      + MatchCount(a, b, m.i + m.k, ahi, m.j + m.k, bhi) :
                m \in {find_longest_match(a, b, alo, ahi, blo, bhi)}} : TRUE

\* mutant: a missing value on one side counts as a perfect match as well
calculate_similarity_one_empty_matches(str1, str2) ==
    IF str1 = EmptyStr \/ str2 = EmptyStr THEN [num |-> 1, den |-> 1]
    ELSE CHOOSE r \in
            {[num |-> 2 * MatchCount(a, b, 1, Len(a), 1, Len(b)), den |-> Len(a) + Len(b)] :
                <<a, b>> \in {<<str_lower(str1), str_lower(str2)>>}} : TRUE

\* ratio() = 2.0 * matches / (len(a) + len(b)), kept as a fraction
calculate_similarity(str1, str2) ==
    IF str1 = EmptyStr /\ str2 = EmptyStr THEN [num |-> 1, den |-> 1]
    ELSE IF str1 = EmptyStr \/ str2 = EmptyStr THEN [num |-> 0, den |-> 1]
    ELSE CHOOSE r \in
            {[num |-> 2 * MatchCount(a, b, 1, Len(a), 1, Len(b)), den |-> Len(a) + Len(b)] :
                <<a, b>> \in {<<str_lower(str1), str_lower(str2)>>}} : TRUE

\* similarity >= 0.8
IsMatch(sim) == sim.num * 10 >= 8 * sim.den

NoMismatch == "None"

\* mutant: a single matching component still counts as a full mismatch
determine_mismatch_type_off_by_one(comparisons) ==
    LET matching_components == Cardinality({c \in DOMAIN comparisons : comparisons[c].match})
        total_components == Cardinality(DOMAIN comparisons)
    IN IF matching_components = total_components THEN NoMismatch
       ELSE IF matching_components <= 1 THEN "full_mismatch"
       ELSE "partial_mismatch"

determine_mismatch_type(comparisons) ==
    LET matching_components == Cardinality({c \in DOMAIN comparisons : comparisons[c].match})
        total_components == Cardinality(DOMAIN comparisons)
    IN IF matching_components = total_components THEN NoMismatch
       ELSE IF matching_components = 0 THEN "full_mismatch"
       ELSE "partial_mismatch"

-----------------------------------------------------------------------------
(* Bounds and input pools of the ledger model                              *)

MaxId == 2

Users == {"u1", "u2"}

Files == {"f1", "f2"}

FileNames == {"statement.pdf"}

NoInfo == [missing |-> TRUE]

Str_ElmSt == <<"1","2"," ","E","l","m"," ","S","t">>
Str_ElmStreet == <<"1","2"," ","E","l","m"," ","S","t","r","e","e","t">>
Str_ElmHash == <<"1","2"," ","E","l","m"," ","S","t",".",","," ","#","4">>
Str_ElmUnit == <<"1","2"," ","e","l","m"," ","s","t"," "," ","U","n","i","t"," ","4">>
Str_OakAve == <<"4","5"," ","O","a","k"," ","A","v","e">>
Str_Springfield == <<"S","p","r","i","n","g","f","i","e","l","d">>
Str_springfield == <<" ","s","p","r","i","n","g","f","i","e","l","d">>
Str_Metropolis == <<"M","e","t","r","o","p","o","l","i","s">>
Str_IL == <<"I","L">>
Str_NY == <<"N","Y">>
Str_62704 == <<"6","2","7","0","4">>
Str_62705 == <<"6","2","7","0","5">>
Str_10001 == <<"1","0","0","0","1">>

StreetOptions == {Str_ElmSt, Str_ElmStreet, Str_ElmHash, Str_ElmUnit, Str_OakAve, EmptyStr, None}
CityOptions == {Str_Springfield, Str_springfield, Str_Metropolis, EmptyStr}
RegionOptions == {Str_IL, Str_NY, EmptyStr}
PostalOptions == {Str_62704, Str_62705, Str_10001, EmptyStr}

MkAddr(s, c, r, p) ==
    [street_address |-> s, city |-> c, state_province |-> r, postal_code |-> p]

AddrA == MkAddr(Str_ElmSt, Str_Springfield, Str_IL, Str_62704)
AddrB == MkAddr(Str_OakAve, Str_Metropolis, Str_NY, Str_10001)
AddrEmpty == MkAddr(EmptyStr, EmptyStr, EmptyStr, EmptyStr)

\* what the onboarding form can post
FormAddresses == {AddrA, AddrEmpty}

\* ClientOnboardingInfo.full_address
full_address(info) ==
    join_comma(SelectSeq(<<info.street_address, info.city, info.state_province, info.postal_code>>,
                         LAMBDA part : Truthy(part)))

WithFull(a) == [k \in AddrKeys \cup {"full_address"} |->
                    IF k = "full_address" THEN full_address(a) ELSE a[k]]

\* _extract_address_validation_fallback: every component empty
ExSkeleton == WithFull(AddrEmpty)

\* extracted address dictionaries handed to compare_addresses: one close to
\* AddrA, one with keys missing that shares only the city with AddrA, and one
\* with a null value
ExNearA == WithFull(MkAddr(Str_ElmStreet, Str_springfield, Str_IL, Str_62705))
ExPartial == [street_address |-> Str_OakAve, city |-> Str_Springfield]
ExNull == [street_address |-> None, city |-> Str_Springfield]

ExtractedPool == {ExNearA, ExPartial, ExNull}

\* the requests of the ledger model.  The first client uses every extracted
\* address on both documents; the second client shares document f1 with one
\* extracted address, which is enough for two clients to hold rows at once.
CompareInputs ==
    {[user |-> "u1", extracted |-> e, file_id |-> f] : e \in ExtractedPool, f \in Files}
    \cup {[user |-> "u2", extracted |-> WithFull(AddrB), file_id |-> "f1"]}

OnboardingInputs ==
    {[user |-> "u1", addr |-> a] : a \in FormAddresses}
    \cup {[user |-> "u2", addr |-> AddrA]}

\* every component string the inputs below can put into an address
ComponentPool ==
    StreetOptions \cup CityOptions \cup RegionOptions \cup PostalOptions

\* normalize_address_component and calculate_similarity are pure: each is
\* evaluated once for every component and every pair the inputs can produce,
\* and the results are kept as explicit tables
RECURSIVE NormalizedTable(_)
NormalizedTable(S) ==
    IF S = {} THEN << >>
    ELSE CHOOSE r \in
            {(c :> normalize_address_component(c)) @@ NormalizedTable(S \ {c}) :
                c \in {CHOOSE x \in S : TRUE}} : TRUE

normalized == NormalizedTable(ComponentPool)

RECURSIVE SimilarityRow(_, _)
SimilarityRow(a, S) ==
    IF S = {} THEN << >>
    ELSE CHOOSE r \in
            {(b :> calculate_similarity(a, b)) @@ SimilarityRow(a, S \ {b}) :
                b \in {CHOOSE x \in S : TRUE}} : TRUE

RECURSIVE SimilarityTable(_, _)
SimilarityTable(S, T) ==
    IF S = {} THEN << >>
    ELSE CHOOSE r \in
            {(a :> SimilarityRow(a, T)) @@ SimilarityTable(S \ {a}, T) :
                a \in {CHOOSE x \in S : TRUE}} : TRUE

similarity_of ==
    CHOOSE r \in {SimilarityTable(N, N) : N \in {{normalized[c] : c \in ComponentPool}}} : TRUE

compare_address_components(client_info, extracted_address) ==
    [component \in AddrKeys |->
        CHOOSE r \in
            {[client_value |-> client_val,
              extracted_value |-> extracted_val,
              similarity |-> similarity,
              match |-> IsMatch(similarity)] :
                <<client_val, extracted_val, similarity>> \in
                    {<<cv, ev, similarity_of[cv][ev]>> :
                        <<cv, ev>> \in {<<normalized[client_info[component]],
                                          normalized[DictGet(extracted_address, component)]>>}}} : TRUE]

-----------------------------------------------------------------------------
(* AddressComparisonService.compare_addresses                              *)

\* a returned dictionary; deleted_count is the local of the same name (it is
\* only logged by the code)
Fail(msg) ==
    [success |-> FALSE, message |-> msg, has_mismatch |-> FALSE,
     mismatch_type |-> NoMismatch, mismatch_created |-> FALSE, mismatch_updated |-> FALSE,
     deleted_count |-> 0]

\* the response of a view that is not a comparison: only its HTTP status
Http(status) == Fail(status)

RowsFor(led, user, file_id) == {r \in led : r.client = user /\ r.file_id = file_id}

\* mutant: an update keeps the row resolved
MismatchDefaults_resolved(client_info, extracted_address, file_name, mismatch_type) ==
    [file_name |-> file_name,
     client_street |-> client_info.street_address,
     client_city |-> client_info.city,
     client_state |-> client_info.state_province,
     client_postal_code |-> client_info.postal_code,
     client_full_address |-> full_address(client_info),
     extracted_street |-> DictGet(extracted_address, "street_address"),
     extracted_city |-> DictGet(extracted_address, "city"),
     extracted_state |-> DictGet(extracted_address, "state_province"),
     extracted_postal_code |-> DictGet(extracted_address, "postal_code"),
     extracted_full_address |-> DictGet(extracted_address, "full_address"),
     mismatch_type |-> mismatch_type,
     resolved |-> TRUE]

MismatchDefaults(client_info, extracted_address, file_name, mismatch_type) ==
    [file_name |-> file_name,
     client_street |-> client_info.street_address,
     client_city |-> client_info.city,
     client_state |-> client_info.state_province,
     client_postal_code |-> client_info.postal_code,
     client_full_address |-> full_address(client_info),
     extracted_street |-> DictGet(extracted_address, "street_address"),
     extracted_city |-> DictGet(extracted_address, "city"),
     extracted_state |-> DictGet(extracted_address, "state_province"),
     extracted_postal_code |-> DictGet(extracted_address, "postal_code"),
     extracted_full_address |-> DictGet(extracted_address, "full_address"),
     mismatch_type |-> mismatch_type,
     resolved |-> FALSE]

MkRow(id, user, file_id, defaults) ==
    [k \in {"id", "client", "file_id"} \cup DOMAIN defaults |->
        CASE k = "id" -> id
          [] k = "client" -> user
          [] k = "file_id" -> file_id
          [] OTHER -> defaults[k]]

\* the columns filled from the extracted dictionary (CharField/TextField, NOT NULL)
ExtractedColumns ==
    {"extracted_street", "extracted_city", "extracted_state",
     "extracted_postal_code", "extracted_full_address"}

\* the primary key of a new row.  The code compares keys for equality only,
\* so the smallest key not in the table stands for the next sequence value.
FreshId(led) == CHOOSE i \in 1..(Cardinality(led) + 1) : \A r \in led : r.id # i

\* mutant: the lookup is skipped and a row is always inserted
update_or_create_always_insert(led, user, file_id, defaults) ==
    IF \E k \in ExtractedColumns : defaults[k] = None
    THEN [raised |-> TRUE, ledger |-> led, created |-> FALSE]
    ELSE [raised |-> FALSE,
          ledger |-> led \cup {MkRow(FreshId(led), user, file_id, defaults)},
          created |-> TRUE]

\* AddressMismatch.objects.update_or_create(client=, file_id=, defaults=)
\* A None in a non-null column makes the save raise IntegrityError; more than
\* one row for the lookup makes get() raise MultipleObjectsReturned.
update_or_create(led, user, file_id, defaults) ==
    LET found == RowsFor(led, user, file_id)
    IN IF Cardinality(found) > 1 \/ \E k \in ExtractedColumns : defaults[k] = None
       THEN [raised |-> TRUE, ledger |-> led, created |-> FALSE]
       ELSE IF found = {}
       THEN [raised |-> FALSE,
             ledger |-> led \cup {MkRow(FreshId(led), user, file_id, defaults)},
             created |-> TRUE]
       ELSE LET old == CHOOSE r \in found : TRUE
            IN [raised |-> FALSE,
                ledger |-> (led \ {old}) \cup {MkRow(old.id, user, file_id, defaults)},
                created |-> FALSE]

\* mutant: the delete is filtered by client only
filter_delete_every_file(led, user, file_id) == {r \in led : r.client = user}

\* mutant: the delete spares rows the user has marked resolved
filter_delete_unresolved_only(led, user, file_id) ==
    {r \in RowsFor(led, user, file_id) : ~r.resolved}

\* the rows AddressMismatch.objects.filter(client=, file_id=).delete() removes
filter_delete(led, user, file_id) == RowsFor(led, user, file_id)

\* mutant: the check for an empty stored address is skipped
HasAnyAddress_skipped(client_info) == TRUE

HasAnyAddress(client_info) ==
    \/ Truthy(client_info.street_address)
    \/ Truthy(client_info.city)
    \/ Truthy(client_info.state_province)
    \/ Truthy(client_info.postal_code)

\* the whole of compare_addresses as a function of the two tables: the new
\* ledger and the returned dictionary
compare_addresses(onb, led, user, extracted_address, file_id, file_name) ==
    IF onb[user] = NoInfo
    THEN [ledger |-> led,
          result |-> Fail("No client address information found for comparison")]
    ELSE IF ~HasAnyAddress(onb[user])
    THEN [ledger |-> led,
          result |-> Fail("No client address information available for comparison")]
    ELSE CHOOSE r \in
      {IF mismatch_type # NoMismatch
       THEN CHOOSE x \in
              {IF uoc.raised
               THEN [ledger |-> led, result |-> Fail("Error comparing addresses")]
               ELSE [ledger |-> uoc.ledger,
                     result |-> [success |-> TRUE, message |-> "ok", has_mismatch |-> TRUE,
                                 mismatch_type |-> mismatch_type,
                                 mismatch_created |-> uoc.created,
                                 mismatch_updated |-> ~uoc.created,
                                 deleted_count |-> 0]] :
                uoc \in {update_or_create(led, user, file_id,
                            MismatchDefaults(onb[user], extracted_address, file_name,
                                             mismatch_type))}} : TRUE
       ELSE [ledger |-> led \ filter_delete(led, user, file_id),
             result |-> [success |-> TRUE, message |-> "ok", has_mismatch |-> FALSE,
                         mismatch_type |-> NoMismatch,
                         mismatch_created |-> FALSE, mismatch_updated |-> FALSE,
                         deleted_count |-> Cardinality(filter_delete(led, user, file_id))]] :
        mismatch_type \in
            {determine_mismatch_type(
                compare_address_components(onb[user], extracted_address))}} : TRUE

NoExtracted == << >>

OpRecord(op, user, file_id, extracted, result) ==
    [op |-> op, user |-> user, file_id |-> file_id, extracted |-> extracted, result |-> result]

\* process_document_metadata, step 5.1: one comparison for one document.  The
\* record of the call also notes whether the row of the key was marked
\* resolved when the call began.
Compare(user, extracted_address, file_id, file_name) ==
    \E r \in {compare_addresses(onboarding, ledger, user, extracted_address, file_id, file_name)} :
       /\ Cardinality(r.ledger) <= MaxId
       /\ ledger' = r.ledger
       /\ cmp' = OpRecord("compare", user, file_id, extracted_address, r.result)
                    @@ [was_resolved |-> \E row \in RowsFor(ledger, user, file_id) : row.resolved]
       /\ UNCHANGED onboarding

\* wealth_onboarding, POST: get_or_create the row and overwrite the address
OnboardingSave(user, addr) ==
    /\ onboarding' = [onboarding EXCEPT ![user] = addr]
    /\ cmp' = OpRecord("onboarding", "-", "-", NoExtracted, Http("200"))
    /\ UNCHANGED ledger

\* the rows of a queryset in primary-key order
RECURSIVE RowsById(_)
RowsById(rows) ==
    IF rows = {} THEN <<>>
    ELSE CHOOSE s \in
            {<<first>> \o RowsById(rows \ {first}) :
                first \in {CHOOSE r \in rows : \A o \in rows : r.id <= o.id}} : TRUE

ExtractedOf(row) ==
    [street_address |-> row.extracted_street,
     city |-> row.extracted_city,
     state_province |-> row.extracted_state,
     postal_code |-> row.extracted_postal_code,
     full_address |-> row.extracted_full_address]

\* the loop over user_mismatches in the two resolution endpoints
RECURSIVE RerunComparisons(_, _, _, _)
RerunComparisons(onb, led, user, rows) ==
    IF rows = <<>> THEN [ledger |-> led, resolved_count |-> 0]
    ELSE CHOOSE x \in
            {[RerunComparisons(onb, r.ledger, user, Tail(rows)) EXCEPT !.resolved_count =
                @ + (IF r.result.success /\ ~r.result.has_mismatch THEN 1 ELSE 0)] :
                r \in {compare_addresses(onb, led, user, ExtractedOf(Head(rows)),
                                         Head(rows).file_id, Head(rows).file_name)}} : TRUE

AddressFrom(row) ==
    MkAddr(row.extracted_street, row.extracted_city, row.extracted_state, row.extracted_postal_code)

\* mutant: the update is not restricted to the rows that were fetched
MarkResolved_every_row(led, rows) == {[r EXCEPT !.resolved = TRUE] : r \in led}

MarkResolved(led, rows) ==
    (led \ rows) \cup {[r EXCEPT !.resolved = TRUE] : r \in rows}

\* the tables after the useExtractedAddress branch: address overwritten from
\* first, rows marked resolved, comparison re-run for the unresolved rows
UseExtractedAddress(user, first, rows) ==
    LET onb2 == [onboarding EXCEPT ![user] = AddressFrom(first)]
        led2 == MarkResolved(ledger, rows)
        user_mismatches == {r \in led2 : r.client = user /\ ~r.resolved}
    IN [onboarding |-> onb2,
        rerun |-> RerunComparisons(onb2, led2, user, RowsById(user_mismatches))]

\* views.update_client_address (mismatch_id 0 stands for a missing id)
UpdateClientAddress(user, mismatch_id, use_extracted_address) ==
    LET found == {r \in ledger : r.id = mismatch_id /\ r.client = user}
    IN IF mismatch_id = 0
       THEN /\ cmp' = OpRecord("update_address", "-", "-", NoExtracted, Http("400"))
            /\ UNCHANGED <<onboarding, ledger>>
       ELSE IF found = {}
       THEN /\ cmp' = OpRecord("update_address", "-", "-", NoExtracted, Http("404"))
            /\ UNCHANGED <<onboarding, ledger>>
       ELSE LET mismatch == CHOOSE r \in found : TRUE
            IN IF use_extracted_address
               THEN IF onboarding[user] = NoInfo
                    THEN /\ cmp' = OpRecord("update_address", "-", "-", NoExtracted, Http("404"))
                         /\ UNCHANGED <<onboarding, ledger>>
                    ELSE \E u \in {UseExtractedAddress(user, mismatch, {mismatch})} :
                            /\ onboarding' = u.onboarding
                            /\ ledger' = u.rerun.ledger
                            /\ cmp' = OpRecord("update_address", "-", "-", NoExtracted, Http("200"))
               ELSE /\ ledger' = MarkResolved(ledger, {mismatch})
                    /\ cmp' = OpRecord("mark_resolved", "-", "-", NoExtracted, Http("200"))
                    /\ UNCHANGED onboarding

\* views.update_client_address_group (mismatch_ids is the posted list)
UpdateClientAddressGroup(user, mismatch_ids, use_extracted_address) ==
    LET mismatches == {r \in ledger :
                          /\ \E i \in 1..Len(mismatch_ids) : mismatch_ids[i] = r.id
                          /\ r.client = user}
    IN IF mismatch_ids = <<>>
       THEN /\ cmp' = OpRecord("update_group", "-", "-", NoExtracted, Http("400"))
            /\ UNCHANGED <<onboarding, ledger>>
       ELSE IF Cardinality(mismatches) # Len(mismatch_ids)
       THEN /\ cmp' = OpRecord("update_group", "-", "-", NoExtracted, Http("404"))
            /\ UNCHANGED <<onboarding, ledger>>
       ELSE IF use_extracted_address
       THEN IF onboarding[user] = NoInfo
            THEN /\ cmp' = OpRecord("update_group", "-", "-", NoExtracted, Http("404"))
                 /\ UNCHANGED <<onboarding, ledger>>
            ELSE \E first_mismatch \in mismatches :
                    \E u \in {UseExtractedAddress(user, first_mismatch, mismatches)} :
                       /\ onboarding' = u.onboarding
                       /\ ledger' = u.rerun.ledger
                       /\ cmp' = OpRecord("update_group", "-", "-", NoExtracted, Http("200"))
       ELSE /\ ledger' = MarkResolved(ledger, mismatches)
            /\ cmp' = OpRecord("mark_resolved_group", "-", "-", NoExtracted, Http("200"))
            /\ UNCHANGED onboarding

\* the posted id lists: empty, one id, or two ids (the second one 1, so that
\* <<1, 1>> repeats an id)
IdLists == {<<>>} \cup {<<i>> : i \in 1..MaxId} \cup {<<i, 1>> : i \in 1..MaxId}

-----------------------------------------------------------------------------
(* Idle values of the variables a specification does not use               *)

Idle == [idle |-> TRUE]

InitLedgerVars ==
    /\ onboarding = [u \in Users |-> NoInfo]
    /\ ledger = {}
    /\ cmp = OpRecord("init", "-", "-", NoExtracted, Http("-"))

IdleLedger == onboarding = Idle /\ ledger = {} /\ cmp = Idle
IdleCls == clsIn = Idle /\ clsOut = Idle
IdleApply == remote = Idle /\ lastCall = Idle
IdleSan == sanIn = Idle /\ sanOut = Idle
IdleExt == extIn = Idle /\ extOut = Idle
IdlePipe == pipe = Idle
IdleConc == batch = Idle /\ inflight = Idle

-----------------------------------------------------------------------------
(* Specification of the mismatch ledger                                    *)

InitLedger == InitLedgerVars /\ IdleCls /\ IdleApply /\ IdleSan /\ IdleExt /\ IdlePipe /\ IdleConc

DoCompare ==
    \E in \in CompareInputs, file_name \in FileNames :
        Compare(in.user, in.extracted, in.file_id, file_name)

DoOnboardingSave == \E in \in OnboardingInputs : OnboardingSave(in.user, in.addr)

DoUpdateClientAddress ==
    \E user \in Users, id \in 0..MaxId, use \in BOOLEAN : UpdateClientAddress(user, id, use)

DoUpdateClientAddressGroup ==
    \E user \in Users, ids \in IdLists, use \in BOOLEAN : UpdateClientAddressGroup(user, ids, use)

NextLedger ==
    /\ \/ DoCompare
       \/ DoOnboardingSave
       \/ DoUpdateClientAddress
       \/ DoUpdateClientAddressGroup
    /\ UNCHANGED <<clsVars, applyVars, sanVars, extVars, pipe, concVars>>

SpecLedger == InitLedger /\ [][NextLedger]_vars

-----------------------------------------------------------------------------
(* Specification of the pure comparison: compare_address_components        *)
(* followed by determine_mismatch_type on one pair of addresses            *)

ClsClients == {AddrA, AddrB, MkAddr(Str_ElmHash, Str_Springfield, EmptyStr, Str_62704)}

ClsExtracted ==
    {MkAddr(s, c, r, p) : s \in StreetOptions, c \in CityOptions,
                          r \in RegionOptions, p \in PostalOptions}
    \cup {[street_address |-> Str_ElmSt], << >>}

InitClassify ==
    /\ clsIn \in {[client |-> c, extracted |-> e] : c \in ClsClients, e \in ClsExtracted}
    /\ clsOut = [done |-> FALSE]
    /\ IdleLedger /\ IdleApply /\ IdleSan /\ IdleExt /\ IdlePipe /\ IdleConc

Classify ==
    /\ ~clsOut.done
    /\ LET comparisons == compare_address_components(clsIn.client, clsIn.extracted)
       IN clsOut' = [done |-> TRUE,
                     comparisons |-> comparisons,
                     mismatch_type |-> determine_mismatch_type(comparisons)]
    /\ UNCHANGED <<clsIn, ledgerVars, applyVars, sanVars, extVars, pipe, concVars>>

NextClassify == Classify

SpecClassify == InitClassify /\ [][NextClassify]_vars

-----------------------------------------------------------------------------
(* Claims about the mismatch ledger and the comparison                     *)

\* C1: after any sequence of comparisons, mark-resolved and address-update
\* actions the ledger holds at most one row for each (client, file_id) pair.
C1_AtMostOneRowPerKey ==
    \A r1 \in ledger : \A r2 \in ledger :
        (r1.client = r2.client /\ r1.file_id = r2.file_id) => r1 = r2

\* a comparison has updated an existing row while another key holds a row too
C1_Witness ==
    /\ cmp.op = "compare"
    /\ cmp.result.mismatch_updated
    /\ Cardinality(ledger) >= 2

StoredAddressOf(user) == onboarding[user]

\* C2: right after a successful comparison, a reported mismatch has a row for
\* (user, file_id) holding the stored address, the extracted address and the
\* returned type; a reported match has no row for (user, file_id).
C2_RowMatchesResult ==
    (cmp.op = "compare" /\ cmp.result.success) =>
        IF cmp.result.has_mismatch
        THEN \E r \in ledger :
                /\ r.client = cmp.user /\ r.file_id = cmp.file_id
                /\ r.client_street = StoredAddressOf(cmp.user).street_address
                /\ r.client_city = StoredAddressOf(cmp.user).city
                /\ r.client_state = StoredAddressOf(cmp.user).state_province
                /\ r.client_postal_code = StoredAddressOf(cmp.user).postal_code
                /\ r.extracted_street = DictGet(cmp.extracted, "street_address")
                /\ r.extracted_city = DictGet(cmp.extracted, "city")
                /\ r.extracted_state = DictGet(cmp.extracted, "state_province")
                /\ r.extracted_postal_code = DictGet(cmp.extracted, "postal_code")
                /\ r.mismatch_type = cmp.result.mismatch_type
                /\ cmp.result.mismatch_type \in {"full_mismatch", "partial_mismatch"}
        ELSE RowsFor(ledger, cmp.user, cmp.file_id) = {}

\* a comparison found a match and removed the row that was there
C2_Witness ==
    /\ cmp.op = "compare"
    /\ cmp.result.success
    /\ ~cmp.result.has_mismatch
    /\ cmp.result.deleted_count > 0

MatchCountOf(comparisons) == Cardinality({c \in DOMAIN comparisons : comparisons[c].match})

\* C3: all four components matching gives no mismatch, none matching gives a
\* full mismatch, and one, two or three matching give a partial mismatch.
C3_Classification ==
    clsOut.done =>
        /\ DOMAIN clsOut.comparisons = AddrKeys
        /\ MatchCountOf(clsOut.comparisons) = 4 => clsOut.mismatch_type = NoMismatch
        /\ MatchCountOf(clsOut.comparisons) = 0 => clsOut.mismatch_type = "full_mismatch"
        /\ MatchCountOf(clsOut.comparisons) \in 1..3 => clsOut.mismatch_type = "partial_mismatch"

\* exactly one component differs (the postal code) and the result is partial
C3_Witness ==
    /\ clsOut.done
    /\ MatchCountOf(clsOut.comparisons) = 3
    /\ ~clsOut.comparisons["postal_code"].match
    /\ clsOut.mismatch_type = "partial_mismatch"

AllEmpty(info) ==
    /\ info.street_address = EmptyStr /\ info.city = EmptyStr
    /\ info.state_province = EmptyStr /\ info.postal_code = EmptyStr

NoStoredAddress(user) ==
    IF onboarding[user] = NoInfo THEN TRUE ELSE AllEmpty(onboarding[user])

\* C4: a comparison for a client without a stored address (no onboarding row,
\* or all four components empty) returns success=false and leaves the ledger
\* exactly as it was.
C4_NoAddressNoChange ==
    [][(cmp'.op = "compare" /\ NoStoredAddress(cmp'.user)) =>
            (~cmp'.result.success /\ ledger' = ledger)]_vars

\* such a comparison has failed while a row for the same key is in the ledger
C4_Witness ==
    /\ cmp.op = "compare"
    /\ ~cmp.result.success
    /\ NoStoredAddress(cmp.user)
    /\ RowsFor(ledger, cmp.user, cmp.file_id) # {}

-----------------------------------------------------------------------------
(* Python values of a metadata mapping, tagged with their type; the field  *)
(* that holds the value is named after the type                            *)

PyNone == [t |-> "NoneType"]
PyStr(s) == [t |-> "str", s |-> s]
PyInt(n) == [t |-> "int", i |-> n]
PyBool(b) == [t |-> "bool", b |-> b]

\* a float that is the decimal num / 10^scale
PyFloat(num, scale) == [t |-> "float", num |-> num, scale |-> scale]

\* the same decimal without trailing zeros after the point
RECURSIVE ReduceDecimal(_, _)
ReduceDecimal(num, scale) ==
    IF scale > 0 /\ num % 10 = 0 THEN ReduceDecimal(num \div 10, scale - 1)
    ELSE PyFloat(num, scale)

AllDigits(s) == \A i \in 1..Len(s) : IsDigit(s[i])

RECURSIVE DigitsValue(_)
DigitsValue(s) ==
    IF s = <<>> THEN 0
    ELSE 10 * DigitsValue(SubSeq(s, 1, Len(s) - 1)) + DigitVal(s[Len(s)])

RECURSIVE NatToStr(_)
NatToStr(n) ==
    IF n < 10 THEN <<Digits[n + 1]>>
    ELSE NatToStr(n \div 10) \o <<Digits[(n % 10) + 1]>>

\* str(int)
IntToStr(n) == IF n < 0 THEN <<"-">> \o NatToStr(0 - n) ELSE NatToStr(n)

RECURSIVE ZeroPad(_, _)
ZeroPad(s, width) == IF Len(s) >= width THEN s ELSE ZeroPad(<<"0">> \o s, width)

RECURSIVE Pow10(_)
Pow10(k) == IF k = 0 THEN 1 ELSE 10 * Pow10(k - 1)

Abs(n) == IF n < 0 THEN 0 - n ELSE n

\* repr(float) of a decimal of ordinary magnitude: "12.5", "3.0", "-0.25"
FloatToStr(f) ==
    (IF f.num < 0 THEN <<"-">> ELSE <<>>)
    \o NatToStr(Abs(f.num) \div Pow10(f.scale))
    \o <<".">>
    \o (IF f.scale = 0 THEN <<"0">>
        ELSE ZeroPad(NatToStr(Abs(f.num) % Pow10(f.scale)), f.scale))

\* str(value)
py_str(value) ==
    CASE value.t = "str" -> value.s
      [] value.t = "int" -> IntToStr(value.i)
      [] value.t = "bool" -> IF value.b THEN <<"T","r","u","e">> ELSE <<"F","a","l","s","e">>
      [] value.t = "float" -> FloatToStr(value)
      [] value.t = "NoneType" -> <<"N","o","n","e">>

\* the position of the first "." of body, or Len(body) + 1
PointAt(body) ==
    IF \E i \in 1..Len(body) : body[i] = "."
    THEN CHOOSE i \in 1..Len(body) : body[i] = "." /\ \A j \in 1..(i - 1) : body[j] # "."
    ELSE Len(body) + 1

IntPart(body) == SubSeq(body, 1, PointAt(body) - 1)
FracPart(body) == SubSeq(body, PointAt(body) + 1, Len(body))

HasSign(s) == s # <<>> /\ s[1] \in {"+", "-"}
Unsigned(s) == IF HasSign(s) THEN Tail(s) ELSE s

\* the decimal literals float() accepts: [sign] digits [. digits] or
\* [sign] . digits  (exponents, underscores, inf and nan are not among the
\* inputs of this model)
IsDecimalLiteral(s) ==
    /\ AllDigits(IntPart(Unsigned(s)))
    /\ AllDigits(FracPart(Unsigned(s)))
    /\ Len(IntPart(Unsigned(s))) + Len(FracPart(Unsigned(s))) > 0

DecimalValue(s) ==
    ReduceDecimal((IF HasSign(s) /\ s[1] = "-" THEN 0 - 1 ELSE 1)
                      * DigitsValue(IntPart(Unsigned(s)) \o FracPart(Unsigned(s))),
                  Len(FracPart(Unsigned(s))))

float_of_str(s) ==
    IF IsDecimalLiteral(s) THEN [error |-> "none", v |-> DecimalValue(s)]
    ELSE [error |-> "ValueError"]

\* float(value): surrounding whitespace of a string is ignored
py_float(value) ==
    CASE value.t = "float" -> [error |-> "none", v |-> value]
      [] value.t = "int" -> [error |-> "none", v |-> PyFloat(value.i, 0)]
      [] value.t = "bool" -> [error |-> "none", v |-> PyFloat(IF value.b THEN 1 ELSE 0, 0)]
      [] value.t = "str" -> float_of_str(str_strip(value.s))
      [] value.t = "NoneType" -> [error |-> "TypeError"]

-----------------------------------------------------------------------------
(* datetime.strptime(value, '%Y-%m-%d') and strftime('%Y-%m-%dT00:00:00Z')  *)

IsLeap(y) == y % 4 = 0 /\ (y % 100 # 0 \/ y % 400 = 0)

DaysInMonth(y, m) ==
    IF m = 2 THEN (IF IsLeap(y) THEN 29 ELSE 28)
    ELSE IF m \in {4, 6, 9, 11} THEN 30 ELSE 31

NonZeroDigit(c) == IsDigit(c) /\ c # "0"

\* %Y is \d\d\d\d
MatchesYear(s) == Len(s) = 4 /\ AllDigits(s)

\* %m is 1[0-2]|0[1-9]|[1-9], here on exactly two characters
MatchesMonth(s) ==
    \/ s[1] = "1" /\ s[2] \in {"0", "1", "2"}
    \/ s[1] = "0" /\ NonZeroDigit(s[2])

\* %d is 3[0-1]|[1-2]\d|0[1-9]|[1-9]| [1-9], here on exactly two characters
MatchesDay(s) ==
    \/ s[1] = "3" /\ s[2] \in {"0", "1"}
    \/ s[1] \in {"1", "2"} /\ IsDigit(s[2])
    \/ s[1] = "0" /\ NonZeroDigit(s[2])
    \/ s[1] = " " /\ NonZeroDigit(s[2])

\* int(s) of a matched group: int() ignores surrounding whitespace
GroupValue(s) == DigitsValue(str_strip(s))

\* strptime on a string of ten characters with "-" at [4] and [7], the only
\* strings _sanitize_metadata passes: the groups are then value[0:4],
\* value[5:7] and value[8:10]; datetime(y, m, d) rejects year 0 and a day
\* past the end of the month
strptime(value) ==
    IF /\ MatchesYear(SubSeq(value, 1, 4))
       /\ MatchesMonth(SubSeq(value, 6, 7))
       /\ MatchesDay(SubSeq(value, 9, 10))
       /\ GroupValue(SubSeq(value, 1, 4)) >= 1
       /\ GroupValue(SubSeq(value, 9, 10))
            <= DaysInMonth(GroupValue(SubSeq(value, 1, 4)), GroupValue(SubSeq(value, 6, 7)))
    THEN [error |-> "none",
          year |-> GroupValue(SubSeq(value, 1, 4)),
          month |-> GroupValue(SubSeq(value, 6, 7)),
          day |-> GroupValue(SubSeq(value, 9, 10))]
    ELSE [error |-> "ValueError"]

\* dt_obj.strftime('%Y-%m-%dT00:00:00Z'); %Y prints the year as the C library
\* does, which for the years from 1000 on is its four digits
strftime(dt) ==
    NatToStr(dt.year) \o <<"-">> \o ZeroPad(NatToStr(dt.month), 2) \o <<"-">>
    \o ZeroPad(NatToStr(dt.day), 2) \o <<"T","0","0",":","0","0",":","0","0","Z">>

-----------------------------------------------------------------------------
(* BoxMetadataExtractionService._get_template_fields: the templates, with  *)
(* the type and the enum options of every field                            *)

NoOptions == {}

DocumentTypeOptions ==
    {<<"1","0","9","9">>,
     <<"W","-","2">>,
     <<"A","c","c","o","u","n","t"," ","S","t","a","t","e","m","e","n","t">>,
     <<"M","o","r","t","g","a","g","e"," ","S","t","a","t","e","m","e","n","t">>,
     <<"T","r","u","s","t"," ","D","o","c","u","m","e","n","t">>,
     <<"A","s","s","e","t"," ","L","i","s","t">>,
     <<"1","0","4","0">>,
     <<"P","e","r","s","o","n","a","l"," ","F","i","n","a","n","c","i","a","l"," ","S","t","a","t","e","m","e","n","t">>,
     <<"L","i","f","e"," ","I","n","s","u","r","a","n","c","e"," ","D","o","c","u","m","e","n","t">>,
     <<"O","t","h","e","r">>}

IsLegibleOptions == {<<"Y","e","s">>, <<"N","o">>}

Str_NotValidated == <<"N","o","t"," ","V","a","l","i","d","a","t","e","d">>

ValidationStatusOptions ==
    {<<"M","a","t","c","h">>, <<"M","i","s","m","a","t","c","h">>,
     <<"P","a","r","t","i","a","l"," ","M","a","t","c","h">>, Str_NotValidated}

Field(type, options) == [type |-> type, options |-> options]

TemplateFields(template_key) ==
    CASE template_key = "financialDocumentBase" ->
            ("documentType" :> Field("enum", DocumentTypeOptions))
         @@ ("taxYear" :> Field("date", NoOptions))
         @@ ("issuerName" :> Field("string", NoOptions))
         @@ ("recipientName" :> Field("string", NoOptions))
         @@ ("documentDate" :> Field("date", NoOptions))
         @@ ("accountOrPolicyNoMasked" :> Field("string", NoOptions))
         @@ ("isLegible" :> Field("enum", IsLegibleOptions))
      [] template_key = "address_validation" ->
            ("street_address" :> Field("string", NoOptions))
         @@ ("city" :> Field("string", NoOptions))
         @@ ("state_province" :> Field("string", NoOptions))
         @@ ("postal_code" :> Field("string", NoOptions))
         @@ ("country" :> Field("string", NoOptions))
         @@ ("full_address" :> Field("string", NoOptions))
         @@ ("validation_status" :> Field("enum", ValidationStatusOptions))
         @@ ("date_extracted" :> Field("date", NoOptions))
      [] template_key = "irsw2" ->
            ("employerEinMasked" :> Field("string", NoOptions))
         @@ ("employeeSsnMasked" :> Field("string", NoOptions))
         @@ ("box1Wages" :> Field("float", NoOptions))
         @@ ("box2FederalWithholding" :> Field("float", NoOptions))

\* what _get_template_field_types builds from the schema of a template: key -> type
SchemaTypes(template_key) ==
    [k \in DOMAIN TemplateFields(template_key) |-> TemplateFields(template_key)[k].type]

\* what it returns when the schema request fails
NoFieldTypes == << >>

-----------------------------------------------------------------------------
(* BoxMetadataApplicationService._sanitize_metadata                        *)

Keep(v) == [keep |-> TRUE, raised |-> FALSE, v |-> v]
Drop == [keep |-> FALSE, raised |-> FALSE]
Raise == [keep |-> FALSE, raised |-> TRUE]

\* the date branch; except (ValueError, TypeError) drops the field
sanitize_date(value) ==
    IF value.t = "str" /\ Len(value.s) = 10 /\ value.s[5] = "-" /\ value.s[8] = "-"
    THEN CHOOSE r \in
            {IF dt.error = "none" THEN Keep(PyStr(strftime(dt)))
             ELSE IF dt.error \in {"ValueError", "TypeError"} THEN Drop
             ELSE Raise :
                dt \in {strptime(value.s)}} : TRUE
    ELSE Drop

\* the list valid_statuses of the enum branch
valid_statuses ==
    {<<"M","a","t","c","h">>, <<"M","i","s","m","a","t","c","h">>,
     <<"P","a","r","t","i","a","l"," ","M","a","t","c","h">>, <<"N","o","t"," ","V","a","l","i","d","a","t","e","d">>}

\* the enum branch
sanitize_enum(template_key, key, value) ==
    IF template_key = "address_validation" /\ key = "validation_status"
    THEN Keep(IF value \in {PyStr(o) : o \in valid_statuses}
              THEN value
              ELSE PyStr(<<"N","o","t"," ","V","a","l","i","d","a","t","e","d">>))
    ELSE Keep(PyStr(py_str(value)))

\* the number branch; except Exception keeps the value as a string
sanitize_number(value) ==
    IF py_float(value).error = "none" THEN Keep(py_float(value).v)
    ELSE Keep(PyStr(py_str(value)))

\* field_types.get(key, "string")
FieldType(field_types, key) ==
    IF key \in DOMAIN field_types THEN field_types[key] ELSE "string"

\* one turn of the loop over metadata.items()
sanitize_field(template_key, field_types, key, value) ==
    IF value \in {PyNone, PyStr(EmptyStr)} THEN Drop
    ELSE IF FieldType(field_types, key) = "date" THEN sanitize_date(value)
    ELSE IF FieldType(field_types, key) = "enum" THEN sanitize_enum(template_key, key, value)
    ELSE IF FieldType(field_types, key) \in {"float", "number", "int"} THEN sanitize_number(value)
    ELSE Keep(PyStr(py_str(value)))

\* the returned dictionary, or raised when an exception leaves the function
_sanitize_metadata(metadata, field_types, template_key) ==
    CHOOSE r \in
        {IF \E k \in DOMAIN fields : fields[k].raised
         THEN [raised |-> TRUE, sanitized |-> << >>]
         ELSE [raised |-> FALSE,
               sanitized |-> [k \in {key \in DOMAIN fields : fields[key].keep} |-> fields[k].v]] :
            fields \in {[k \in DOMAIN metadata |->
                            sanitize_field(template_key, field_types, k, metadata[k])]}} : TRUE

-----------------------------------------------------------------------------
(* Specification of one _sanitize_metadata run                             *)

\* a key the caller does not send
Absent == [t |-> "absent"]

\* the mapping that holds the keys of a that are sent
Present(a) == [k \in {key \in DOMAIN a : a[key] # Absent} |-> a[k]]

DateValues ==
    {PyStr(<<"2","0","2","3","-","0","4","-","0","1">>),
     PyStr(<<"2","0","2","4","-","0","2","-","2","9">>),
     PyStr(<<"2","0","2","3","/","0","4","/","0","1">>),
     PyStr(<<"2","0","2","3","-","0","2","-","3","0">>),
     PyStr(<<"2","0","2","3","-","0","2","-","2","9">>),
     PyStr(<<"2","0","2","3","-","0","4","-"," ","1">>),
     PyStr(<<"2","0","2","3","-","1","3","-","0","1">>),
     PyStr(<<"0","0","0","0","-","0","1","-","0","1">>),
     PyStr(<<"2","0","2","3","-","4","-","1">>),
     PyStr(<<"2","0","2","3","-","0","4","-","0","1","T","0","0",":","0","0",":","0","0","Z">>),
     PyStr(EmptyStr), PyInt(2023)}

BaseInputs ==
    {Present(("documentType" :> dt) @@ ("taxYear" :> ty) @@ ("isLegible" :> il)
             @@ ("confidence" :> cf)) :
        dt \in {Absent, PyStr(<<"W","-","2">>), PyStr(<<"B","a","n","a","n","a">>), PyNone},
        ty \in {Absent} \cup DateValues,
        il \in {Absent, PyStr(<<"Y","e","s">>), PyBool(TRUE)},
        cf \in {Absent, PyStr(<<"h","i","g","h">>)}}

AddressInputs ==
    {Present(("validation_status" :> vs) @@ ("date_extracted" :> de)
             @@ ("street_address" :> sa)) :
        vs \in {Absent, PyStr(<<"M","a","t","c","h">>), PyStr(<<"P","a","r","t","i","a","l"," ","M","a","t","c","h">>), PyStr(<<"m","a","t","c","h">>),
                PyBool(TRUE), PyNone},
        de \in {Absent, PyStr(<<"2","0","2","3","-","0","4","-","0","1">>), PyStr(<<"0","4","/","0","1","/","2","0","2","3">>)},
        sa \in {Absent, PyStr(EmptyStr), PyStr(Str_ElmSt), PyInt(42)}}

W2Inputs ==
    {Present(("box1Wages" :> bw) @@ ("employerEinMasked" :> ein)) :
        bw \in {Absent, PyStr(<<"1","2",".","5","0">>), PyStr(<<" ","7"," ">>), PyStr(<<"$","1">>), PyStr(<<"-","0",".","2","5">>),
                PyInt(3), PyFloat(125, 1), PyBool(TRUE)},
        ein \in {Absent, PyStr(<<"X","X","-","1","2","3","4">>), PyInt(0 - 42)}}

TemplateInputs(template_key) ==
    CASE template_key = "financialDocumentBase" -> BaseInputs
      [] template_key = "address_validation" -> AddressInputs
      [] template_key = "irsw2" -> W2Inputs

Templates == {"financialDocumentBase", "address_validation", "irsw2"}

\* the arguments of a run: the schema request has either answered or failed
SanInputs ==
    {[template_key |-> t, field_types |-> ft, metadata |-> m] :
        <<t, ft, m>> \in
            UNION {{t2} \X {SchemaTypes(t2), NoFieldTypes} \X TemplateInputs(t2) : t2 \in Templates}}

InitSanitize ==
    /\ sanIn \in SanInputs
    /\ sanOut = [done |-> FALSE]
    /\ IdleLedger /\ IdleCls /\ IdleApply /\ IdleExt /\ IdlePipe /\ IdleConc

Sanitize ==
    /\ ~sanOut.done
    /\ \E r \in {_sanitize_metadata(sanIn.metadata, sanIn.field_types, sanIn.template_key)} :
          sanOut' = [done |-> TRUE, raised |-> r.raised, sanitized |-> r.sanitized]
    /\ UNCHANGED <<sanIn, ledgerVars, clsVars, applyVars, extVars, pipe, concVars>>

\* a second run on the output of the first, with the same schema
SanitizeAgain ==
    /\ sanOut.done
    /\ ~sanOut.raised
    /\ "second" \notin DOMAIN sanOut
    /\ \E r \in {_sanitize_metadata(sanOut.sanitized, sanIn.field_types, sanIn.template_key)} :
          sanOut' = [done |-> TRUE, raised |-> sanOut.raised, sanitized |-> sanOut.sanitized,
                     second |-> r]
    /\ UNCHANGED <<sanIn, ledgerVars, clsVars, applyVars, extVars, pipe, concVars>>

NextSanitize == Sanitize \/ SanitizeAgain

SpecSanitize == InitSanitize /\ [][NextSanitize]_vars

-----------------------------------------------------------------------------
(* Claims about _sanitize_metadata                                         *)

\* C8: for every input mapping and every schema, the output of
\* _sanitize_metadata contains no key that is absent from the schema's
\* declared fields, and no null or empty-string value.
C8_OnlyDeclaredKeys ==
    sanOut.done =>
        \A k \in DOMAIN sanOut.sanitized :
            /\ k \in DOMAIN sanIn.field_types
            /\ sanOut.sanitized[k] \notin {PyNone, PyStr(EmptyStr)}

\* a string in strict YYYY-MM-DD form
IsStrictYmd(s) ==
    /\ Len(s) = 10
    /\ s[5] = "-" /\ s[8] = "-"
    /\ \A i \in {1, 2, 3, 4, 6, 7, 9, 10} : IsDigit(s[i])

\* a strict YYYY-MM-DD string that names a calendar date
IsCalendarDate(s) ==
    /\ IsStrictYmd(s)
    /\ DigitsValue(SubSeq(s, 1, 4)) >= 1
    /\ DigitsValue(SubSeq(s, 6, 7)) \in 1..12
    /\ DigitsValue(SubSeq(s, 9, 10)) >= 1
    /\ DigitsValue(SubSeq(s, 9, 10))
          <= DaysInMonth(DigitsValue(SubSeq(s, 1, 4)), DigitsValue(SubSeq(s, 6, 7)))

DateKeys == {k \in DOMAIN sanIn.metadata : FieldType(sanIn.field_types, k) = "date"}

\* C9: a field declared as date is kept only when the input is a string in
\* strict YYYY-MM-DD form that parses as a calendar date, and is then stored
\* as that date at midnight with a fixed offset; for every other input the
\* field is absent from the output, and no exception is raised.
C9_StrictDateOnly ==
    sanOut.done =>
        /\ ~sanOut.raised
        /\ \A k \in DateKeys :
              IF sanIn.metadata[k].t = "str" /\ IsCalendarDate(sanIn.metadata[k].s)
              THEN /\ k \in DOMAIN sanOut.sanitized
                   /\ sanOut.sanitized[k]
                        = PyStr(sanIn.metadata[k].s \o <<"T","0","0",":","0","0",":","0","0","Z">>)
              ELSE k \notin DOMAIN sanOut.sanitized

EnumKeys == {k \in DOMAIN sanOut.sanitized : FieldType(sanIn.field_types, k) = "enum"}

\* C10: every value output for a field declared as enum is a member of that
\* field's declared option set; for validation_status of address_validation a
\* value outside the options is replaced by the default 'Not Validated'.
C10_EnumWithinOptions ==
    sanOut.done =>
        \A k \in EnumKeys :
            /\ sanOut.sanitized[k]
                  \in {PyStr(o) : o \in TemplateFields(sanIn.template_key)[k].options}
            /\ (/\ sanIn.template_key = "address_validation"
                /\ k = "validation_status"
                /\ sanIn.metadata[k]
                      \notin {PyStr(o) : o \in TemplateFields(sanIn.template_key)[k].options})
               => sanOut.sanitized[k] = PyStr(Str_NotValidated)

\* C11: _sanitize_metadata is idempotent: sanitizing the output of a run again
\* with the same schema yields the same key set and the same values.
C11_Idempotent ==
    "second" \in DOMAIN sanOut =>
        /\ ~sanOut.second.raised
        /\ DOMAIN sanOut.second.sanitized = DOMAIN sanOut.sanitized
        /\ \A k \in DOMAIN sanOut.sanitized : sanOut.second.sanitized[k] = sanOut.sanitized[k]

-----------------------------------------------------------------------------
(* BoxMetadataApplicationService._apply_metadata against the Box metadata  *)
(* store.  The store and the client library are not part of the            *)
(* repository: every answer the code distinguishes is a possible answer.   *)

NoRecord == [missing |-> TRUE]

\* how the schema request can end: answered, or an exception (field_types = {})
SchemaAnswers == {"ok", "error"}

\* how the create request can be answered:
\*   store_status  by the store, a refusal coming back as a response status
\*   store_raise   by the store, a refusal raised as BoxAPIException
\*   status_other  a response with a status that is neither 2xx nor 409
\*   box_other     a BoxAPIException with a status other than 409
\*   exception     any other exception (connection reset, timeout, ...)
PostAnswers == {"store_status", "store_raise", "status_other", "box_other", "exception"}

\* how the update request can be answered: by the store, with an error
\* status, or with an exception
PutAnswers == {"store", "status_other", "exception"}

\* the store on POST: creates the record when there is none, else 409
PostOutcome(record, answer) ==
    CASE answer = "store_status" -> IF record = NoRecord THEN "2xx" ELSE "409"
      [] answer = "store_raise" -> IF record = NoRecord THEN "2xx" ELSE "BoxAPIException 409"
      [] OTHER -> answer

\* the store on PUT: patches the record when there is one, else 404
PutOutcome(record, answer) ==
    CASE answer = "store" -> IF record = NoRecord THEN "404" ELSE "2xx"
      [] OTHER -> answer

\* the record after the JSON-Patch 'add' operations
PatchAdd(record, operations) ==
    [k \in DOMAIN record \cup DOMAIN operations |->
        IF k \in DOMAIN operations THEN operations[k] ELSE record[k]]

Request(method, outcome) == [method |-> method, outcome |-> outcome]

Result(success, message) == [success |-> success, message |-> message]

\* mutant: an empty sanitized dictionary is sent like any other
IsEmptyDict_never(d) == FALSE

\* not sanitized_metadata
IsEmptyDict(d) == DOMAIN d = {}

\* mutant: a conflict is handled like any other failed create
IsConflict_never(outcome) == FALSE

\* response.status_code == 409, box_error.status == 409
IsConflict(outcome) == outcome \in {"409", "BoxAPIException 409"}

\* the operations list of the update: one 'add' for every value that is
\* neither None nor ""
Operations(sanitized) ==
    [k \in {key \in DOMAIN sanitized : sanitized[key] \notin {PyNone, PyStr(EmptyStr)}} |->
        sanitized[k]]

\* the update path, from "If we reach here" on
UpdatePath(record, sanitized, sent, put) ==
    IF IsEmptyDict(Operations(sanitized))
    THEN [requests |-> sent, record |-> record,
          result |-> Result(FALSE, "No valid operations to perform")]
    ELSE IF PutOutcome(record, put) = "2xx"
    THEN [requests |-> Append(sent, Request("PUT", "2xx")),
          record |-> PatchAdd(record, Operations(sanitized)),
          result |-> Result(TRUE, "Metadata updated successfully")]
    ELSE [requests |-> Append(sent, Request("PUT", PutOutcome(record, put))),
          record |-> record,
          result |-> Result(FALSE, "Failed to update metadata")]

\* the create attempt and what follows it
CreatePath(record, sanitized, sent, post, put) ==
    CHOOSE r \in
        {IF outcome = "2xx"
         THEN [requests |-> Append(sent, Request("POST", outcome)), record |-> sanitized,
               result |-> Result(TRUE, "Metadata created successfully")]
         ELSE IF IsConflict(outcome) \/ outcome = "exception"
         THEN UpdatePath(record, sanitized, Append(sent, Request("POST", outcome)), put)
         ELSE [requests |-> Append(sent, Request("POST", outcome)), record |-> record,
               result |-> Result(FALSE, "Failed to create metadata")] :
            outcome \in {PostOutcome(record, post)}} : TRUE

\* _get_template_field_types
_get_template_field_types(template_key, schema) ==
    IF schema = "ok" THEN SchemaTypes(template_key) ELSE NoFieldTypes

\* the whole of _apply_metadata on the record of (file_id, template_key):
\* the requests sent, the record afterwards, the sanitized fields and the
\* returned dictionary
_apply_metadata(record, template_key, metadata, schema, post, put) ==
    CHOOSE r \in
        {[sanitized |-> san.sanitized] @@
         (IF san.raised
          THEN [requests |-> <<Request("GET", schema)>>, record |-> record,
                result |-> Result(FALSE, "An unexpected error occurred")]
          ELSE IF IsEmptyDict(san.sanitized)
          THEN [requests |-> <<Request("GET", schema)>>, record |-> record,
                result |-> Result(TRUE, "No valid metadata to apply.")]
          ELSE CreatePath(record, san.sanitized, <<Request("GET", schema)>>, post, put)) :
            san \in {_sanitize_metadata(metadata,
                                        _get_template_field_types(template_key, schema),
                                        template_key)}} : TRUE

-----------------------------------------------------------------------------
(* Specification of the metadata store under _apply_metadata calls         *)

ApplyFiles == {"f1"}

ApplyTemplates == {"financialDocumentBase", "address_validation"}

\* the mappings callers pass: two that sanitize to different records, one
\* that is empty after sanitization with the schema and one that always is
ApplyInputs(template_key) ==
    CASE template_key = "financialDocumentBase" ->
            {("documentType" :> PyStr(<<"W","-","2">>)) @@ ("taxYear" :> PyStr(<<"2","0","2","3","-","0","4","-","0","1">>)),
             ("documentType" :> PyStr(<<"1","0","9","9">>)),
             ("taxYear" :> PyStr(<<"2","0","2","3","/","0","4","/","0","1">>))}
      [] template_key = "address_validation" ->
            {("validation_status" :> PyStr(<<"M","a","t","c","h">>)) @@ ("street_address" :> PyStr(Str_ElmSt)),
             ("validation_status" :> PyStr(<<"U","n","k","n","o","w","n">>)),
             ("street_address" :> PyStr(EmptyStr)) @@ ("validation_status" :> PyNone)}

InitApply ==
    /\ remote = [f \in ApplyFiles |-> [t \in ApplyTemplates |-> NoRecord]]
    /\ lastCall = [called |-> FALSE]
    /\ IdleLedger /\ IdleCls /\ IdleSan /\ IdleExt /\ IdlePipe /\ IdleConc

\* history: the call before this one had the same arguments, found no record
\* and created it
RepeatsCreate(file_id, template_key, metadata) ==
    /\ lastCall.called
    /\ lastCall.file_id = file_id
    /\ lastCall.template_key = template_key
    /\ lastCall.metadata = metadata
    /\ ~lastCall.had_record
    /\ lastCall.requests = <<Request("GET", "ok"), Request("POST", "2xx")>>

ApplyMetadata(file_id, template_key, metadata, schema, post, put) ==
    \E r \in {_apply_metadata(remote[file_id][template_key], template_key, metadata,
                              schema, post, put)} :
        /\ remote' = [remote EXCEPT ![file_id][template_key] = r.record]
        /\ lastCall' = [called |-> TRUE, file_id |-> file_id, template_key |-> template_key,
                        metadata |-> metadata, sanitized |-> r.sanitized,
                        requests |-> r.requests, result |-> r.result,
                        had_record |-> remote[file_id][template_key] # NoRecord,
                        repeats_create |-> RepeatsCreate(file_id, template_key, metadata)]
        /\ UNCHANGED <<ledgerVars, clsVars, sanVars, extVars, pipe, concVars>>

DoApplyMetadata ==
    \E file_id \in ApplyFiles, template_key \in ApplyTemplates :
        \E metadata \in ApplyInputs(template_key) :
            \E schema \in SchemaAnswers, post \in PostAnswers, put \in PutAnswers :
                ApplyMetadata(file_id, template_key, metadata, schema, post, put)

NextApply == DoApplyMetadata

SpecApply == InitApply /\ [][NextApply]_vars

-----------------------------------------------------------------------------
(* Claims about _apply_metadata                                            *)

Sent(call, method) == \E i \in 1..Len(call.requests) : call.requests[i].method = method

OutcomeOf(call, method) ==
    call.requests[CHOOSE i \in 1..Len(call.requests) : call.requests[i].method = method].outcome

RecordOf(call) == remote[call.file_id][call.template_key]

\* the store answered the schema request, and the create request as the
\* claim describes: OK when the record is absent, CONFLICT when present
StoreAnswered(call) ==
    /\ OutcomeOf(call, "GET") = "ok"
    /\ Sent(call, "POST")
    /\ OutcomeOf(call, "POST") \in {"2xx", "409", "BoxAPIException 409"}

\* C5: two calls in succession with the same non-empty fields on a file with
\* no record, against a store that answers create with OK when the record is
\* absent and with CONFLICT when present and answers patch with OK: the first
\* call sends exactly one create, the second one create attempt followed by
\* one update; both report success and the stored record equals the
\* sanitized fields after each.
C5_CreateThenUpdate ==
    (lastCall.called /\ DOMAIN lastCall.sanitized # {} /\ StoreAnswered(lastCall)) =>
        /\ ~lastCall.had_record =>
              /\ lastCall.requests = <<Request("GET", "ok"), Request("POST", "2xx")>>
              /\ lastCall.result.success
              /\ RecordOf(lastCall) = lastCall.sanitized
        /\ (/\ lastCall.repeats_create
            /\ Sent(lastCall, "PUT") => OutcomeOf(lastCall, "PUT") = "2xx") =>
              /\ Len(lastCall.requests) = 3
              /\ lastCall.requests[2].method = "POST"
              /\ lastCall.requests[2].outcome \in {"409", "BoxAPIException 409"}
              /\ lastCall.requests[3] = Request("PUT", "2xx")
              /\ lastCall.result.success
              /\ RecordOf(lastCall) = lastCall.sanitized

C5_Witness ==
    /\ lastCall.called
    /\ lastCall.repeats_create
    /\ StoreAnswered(lastCall)
    /\ OutcomeOf(lastCall, "POST") = "409"
    /\ DOMAIN lastCall.sanitized # {}
    /\ Len(lastCall.requests) = 3
    /\ lastCall.requests[3] = Request("PUT", "2xx")
    /\ lastCall.result.success
    /\ RecordOf(lastCall) = lastCall.sanitized

\* C6: the update request is sent only after the create attempt ended in a
\* conflict; when create succeeds no update is sent; when create fails in any
\* other way (non-409 status, non-409 provider exception, any other
\* exception) the call returns success = false and no update is sent.
C6_UpdateOnlyAfterConflict ==
    (lastCall.called /\ Sent(lastCall, "POST")) =>
        /\ Sent(lastCall, "PUT") =>
              OutcomeOf(lastCall, "POST") \in {"409", "BoxAPIException 409"}
        /\ OutcomeOf(lastCall, "POST") = "2xx" => ~Sent(lastCall, "PUT")
        /\ OutcomeOf(lastCall, "POST") \in {"status_other", "box_other", "exception"} =>
              /\ ~lastCall.result.success
              /\ ~Sent(lastCall, "PUT")

\* C7: when the sanitized field set is empty, _apply_metadata returns
\* success = true with a no-op message and sends neither a create nor an
\* update request, so the remote metadata record is unchanged.
C7_EmptyIsNoOp ==
    [][(lastCall'.called /\ DOMAIN lastCall'.sanitized = {}) =>
          /\ lastCall'.result = Result(TRUE, "No valid metadata to apply.")
          /\ ~Sent(lastCall', "POST")
          /\ ~Sent(lastCall', "PUT")
          /\ remote' = remote]_vars

C7_Witness ==
    /\ lastCall.called
    /\ DOMAIN lastCall.metadata # {}
    /\ DOMAIN lastCall.sanitized = {}
    /\ lastCall.had_record
    /\ lastCall.result.success

-----------------------------------------------------------------------------
(* JSON values of the Box AI responses and of the extraction results.      *)
(* A dict is a function from its keys to values; inside another value it   *)
(* is wrapped, so that isinstance() can be asked of every value.           *)

PyList(items) == [t |-> "list", items |-> items]
PyDict(d) == [t |-> "dict", d |-> d]

\* a string that the code uses as a mapping key (field['key'], file_id)
PyKey(k) == [t |-> "str", name |-> k]

\* a message text
PyMsg(m) == [t |-> "str", text |-> m]

EmptyDict == << >>

\* 'k in d and isinstance(d[k], list)'
HasList(d, k) == k \in DOMAIN d /\ d[k].t = "list"

\* 'k in d and isinstance(d[k], dict)'
HasDict(d, k) == k \in DOMAIN d /\ d[k].t = "dict"

\* "'key' in field" raises TypeError when an entry of the list is a number or None
RaisesOnEntries(fields) == \E i \in 1..Len(fields) : fields[i].t \notin {"dict", "str", "list"}

\* 'key' in field and 'value' in field, for an entry that is a dict
HasKeyAndValue(field) == field.t = "dict" /\ {"key", "value"} \subseteq DOMAIN field.d

RECURSIVE FieldValues(_, _)
\* field_dict after the loop over fields[i..]: field_dict[field['key']] = field['value']
\* for each entry with both, a later entry overwriting an earlier one
FieldValues(fields, i) ==
    IF i > Len(fields) THEN EmptyDict
    ELSE IF HasKeyAndValue(fields[i])
         THEN FieldValues(fields, i + 1) @@ (fields[i].d.key.name :> fields[i].d.value)
         ELSE FieldValues(fields, i + 1)

\* any('value' in field for field in fields)
AnyValue(fields) == \E i \in 1..Len(fields) : fields[i].t = "dict" /\ "value" \in DOMAIN fields[i].d

\* the texts an 'answer' string is drawn from, and json.loads of each
Str_AnswerObject == <<"{","\"","d","o","c","u","m","e","n","t","T","y","p","e","\"",":"," ","\"","W","-","2","\"","}">>
Str_AnswerArray == <<"[","]">>
Str_AnswerText == <<"T","h","i","s"," ","i","s"," ","a"," ","W","-","2"," ","f","o","r","m">>
Str_W2 == <<"W","-","2">>

JSONDecodeError == [t |-> "JSONDecodeError"]

json_loads(s) ==
    CASE s = Str_AnswerObject -> PyDict("documentType" :> PyStr(Str_W2))
      [] s = Str_AnswerArray -> PyList(<< >>)
      [] OTHER -> JSONDecodeError

\* keys that start with '$'
DollarKeys == {"$template"}

\* {k: v for k, v in d.items() if k not in excluded and not k.startswith('$')}
Without(d, excluded) == [k \in (DOMAIN d \ (excluded \cup DollarKeys)) |-> d[k]]

\* the result dicts of the extraction service
Success(message, data, file_id) ==
    [success |-> PyBool(TRUE), message |-> PyMsg(message), data |-> PyDict(data),
     file_id |-> PyKey(file_id)]

Failure(message, file_id) ==
    [success |-> PyBool(FALSE), message |-> PyMsg(message), file_id |-> PyKey(file_id)]

-----------------------------------------------------------------------------
(* BoxMetadataExtractionService._extract_with_box_ai: the interpretation   *)
(* of the answer of POST /2.0/ai/extract_structured.                       *)

\* the 'answer' of a response that has completion_reason and ai_agent_info:
\* the extracted data, or the early return on a field list without values
TemplateDefinition == [t |-> "template_definition"]

AnswerData(response_json) ==
    IF "answer" \notin DOMAIN response_json THEN EmptyDict
    ELSE IF response_json.answer.t = "dict"
    THEN IF HasList(response_json.answer.d, "fields")
         THEN IF AnyValue(response_json.answer.d.fields.items)
              THEN FieldValues(response_json.answer.d.fields.items, 1)
              ELSE TemplateDefinition
         ELSE response_json.answer.d
    ELSE IF response_json.answer.t = "str"
    THEN IF json_loads(response_json.answer.s) = JSONDecodeError
         THEN "extracted_text" :> response_json.answer
         ELSE IF json_loads(response_json.answer.s).t = "dict"
              THEN json_loads(response_json.answer.s).d
              ELSE EmptyDict
    ELSE EmptyDict

ExcludedFields == {"ai_agent_info", "completion_reason", "created_at", "type", "id", "scope", "template"}

\* the branch on the shape of a response with status 200 or 202
InterpretResponse(file_id, response_json) ==
    IF HasList(response_json, "fields")
    THEN IF RaisesOnEntries(response_json.fields.items)
         THEN Failure("API error", file_id)
         ELSE Success("Metadata extraction completed successfully",
                      FieldValues(response_json.fields.items, 1), file_id)
    ELSE IF "entries" \in DOMAIN response_json /\ Len(response_json.entries.items) > 0
    THEN Success("Metadata extraction completed successfully",
                 IF "metadata" \in DOMAIN response_json.entries.items[1].d
                 THEN response_json.entries.items[1].d.metadata.d
                 ELSE EmptyDict,
                 file_id)
    ELSE IF {"completion_reason", "ai_agent_info"} \subseteq DOMAIN response_json
    THEN IF AnswerData(response_json) = TemplateDefinition
         THEN Failure("Box AI returned template definition instead of extracted data", file_id)
         ELSE IF DOMAIN AnswerData(response_json) # {}
              THEN Success("Metadata extraction completed successfully with AI",
                           AnswerData(response_json), file_id)
              ELSE Success("Metadata extraction completed successfully with AI",
                           Without(response_json, ExcludedFields), file_id)
    ELSE Success("Extraction completed with unknown format", response_json, file_id)

\* ai is what make_request does: it raises, or it answers with a status and a body
_extract_with_box_ai(file_id, template_key, ai) ==
    IF template_key = "address_validation" /\ DOMAIN TemplateFields(template_key) = {}
    THEN Failure("No field configuration for template", file_id)
    ELSE IF ai.kind = "exception" THEN Failure("API error", file_id)
    ELSE IF ai.status \notin {200, 202} THEN Failure("Extraction request failed", file_id)
    ELSE InterpretResponse(file_id, ai.json)

-----------------------------------------------------------------------------
(* BoxMetadataApplicationService._extract_metadata_values: what the apply  *)
(* operations take as the fields of the value they are handed.             *)

TypeError == [t |-> "TypeError"]

ResultKeys == {"success", "message", "data", "file_id"}

\* the loop over a field list and the test of field_dict after it
FieldListValues(fields) ==
    IF RaisesOnEntries(fields) THEN TypeError ELSE PyDict(FieldValues(fields, 1))

\* the branch under "'ai_agent_info' in extraction_result"
AiResponseValues(extraction_result) ==
    IF HasList(extraction_result, "fields")
    THEN FieldListValues(extraction_result.fields.items)
    ELSE IF HasDict(extraction_result, "answer")
    THEN IF HasList(extraction_result.answer.d, "fields")
         THEN FieldListValues(extraction_result.answer.d.fields.items)
         ELSE extraction_result.answer
    ELSE IF "answer" \in DOMAIN extraction_result /\ extraction_result.answer.t = "str"
            /\ json_loads(extraction_result.answer.s) = JSONDecodeError
    THEN PyDict("extracted_text" :> extraction_result.answer)
    ELSE IF "answer" \in DOMAIN extraction_result /\ extraction_result.answer.t = "str"
            /\ json_loads(extraction_result.answer.s).t = "dict"
    THEN json_loads(extraction_result.answer.s)
    ELSE PyDict(Without(extraction_result, ExcludedFields \cup {"success", "message", "file_id"}))

_extract_metadata_values(extraction_result) ==
    IF DOMAIN extraction_result \cap ResultKeys = {} THEN PyDict(extraction_result)
    ELSE IF HasDict(extraction_result, "data") THEN extraction_result.data
    ELSE IF "ai_agent_info" \in DOMAIN extraction_result THEN AiResponseValues(extraction_result)
    ELSE IF HasList(extraction_result, "fields")
    THEN FieldListValues(extraction_result.fields.items)
    ELSE IF "metadata" \in DOMAIN extraction_result THEN extraction_result.metadata
    ELSE PyDict(Without(extraction_result, {"success", "message", "file_id", "type", "id", "scope", "template"}))

-----------------------------------------------------------------------------
(* BoxMetadataExtractionService: the three extraction operations, their    *)
(* fallbacks and the document-type lookup.                                 *)

\* Python truthiness of a JSON value
PyTruthy(v) ==
    CASE v.t = "NoneType" -> FALSE
      [] v.t = "bool" -> v.b
      [] v.t = "int" -> v.i # 0
      [] v.t = "str" -> v # PyStr(<< >>)
      [] v.t = "list" -> v # PyList(<< >>)
      [] v.t = "dict" -> v # PyDict(EmptyDict)
      [] OTHER -> TRUE

\* 'sub in s'
Contains(s, sub) == \E i \in 1..Len(s) : StartsWithAt(s, i, sub)

\* a field of a field list that has 'prompt' and 'type' but no 'value'
IsDefinitionField(field) ==
    field.t = "dict" /\ {"prompt", "type"} \subseteq DOMAIN field.d /\ "value" \notin DOMAIN field.d

EmptyValues == {PyNone, PyStr(<< >>), PyList(<< >>)}

\* the check without its last test, "all values are None or empty"
_is_template_definition_without_empty_test(metadata) ==
    \/ /\ HasList(metadata, "fields")
       /\ \E i \in 1..Len(metadata.fields.items) : IsDefinitionField(metadata.fields.items[i])
    \/ DOMAIN metadata \cap {"template_key", "ai_agent_info", "completion_reason"} # {}

_is_template_definition(metadata) ==
    \/ /\ HasList(metadata, "fields")
       /\ \E i \in 1..Len(metadata.fields.items) : IsDefinitionField(metadata.fields.items[i])
    \/ DOMAIN metadata \cap {"template_key", "ai_agent_info", "completion_reason"} # {}
    \/ \A k \in DOMAIN metadata : metadata[k].t # "dict" => metadata[k] \in EmptyValues

\* the document type guessed from the lowered file name
GuessDocumentType(filename) ==
    IF Contains(filename, <<"1","0","9","9">>) THEN <<"1","0","9","9">>
    ELSE IF Contains(filename, <<"w","-","2">>) \/ Contains(filename, <<"w","2">>) THEN <<"W","-","2">>
    ELSE IF /\ Contains(filename, <<"s","t","a","t","e","m","e","n","t">>)
            /\ \/ Contains(filename, <<"a","c","c","o","u","n","t">>)
               \/ Contains(filename, <<"b","a","n","k">>)
               \/ Contains(filename, <<"b","r","o","k","e","r","a","g","e">>)
    THEN <<"A","c","c","o","u","n","t"," ","S","t","a","t","e","m","e","n","t">>
    ELSE IF Contains(filename, <<"m","o","r","t","g","a","g","e">>) THEN <<"M","o","r","t","g","a","g","e"," ","S","t","a","t","e","m","e","n","t">>
    ELSE IF Contains(filename, <<"t","r","u","s","t">>) THEN <<"T","r","u","s","t"," ","D","o","c","u","m","e","n","t">>
    ELSE IF Contains(filename, <<"a","s","s","e","t">>) /\ Contains(filename, <<"l","i","s","t">>) THEN <<"A","s","s","e","t"," ","L","i","s","t">>
    ELSE IF Contains(filename, <<"1","0","4","0">>) THEN <<"1","0","4","0">>
    ELSE IF Contains(filename, <<"f","i","n","a","n","c","i","a","l">>) /\ Contains(filename, <<"s","t","a","t","e","m","e","n","t">>)
    THEN <<"P","e","r","s","o","n","a","l"," ","F","i","n","a","n","c","i","a","l"," ","S","t","a","t","e","m","e","n","t">>
    ELSE IF Contains(filename, <<"i","n","s","u","r","a","n","c","e">>) THEN <<"L","i","f","e"," ","I","n","s","u","r","a","n","c","e"," ","D","o","c","u","m","e","n","t">>
    ELSE <<"U","n","k","n","o","w","n">>

\* a result of a fallback: it has no file_id
Fallback(message, data) ==
    [success |-> PyBool(TRUE), message |-> PyMsg(message), data |-> PyDict(data)]

_extract_base_metadata_fallback(file_id, file_info) ==
    Fallback("Fallback metadata extraction completed",
             [documentType |-> PyStr(GuessDocumentType(str_lower(file_info.name))),
              documentDate |-> PyNone, issuerName |-> PyNone, recipientName |-> PyNone])

\* file_info is the answer of client.file(file_id).get(): an exception or the file
FileFailure == [success |-> PyBool(FALSE), message |-> PyMsg("File not found or inaccessible")]

\* the part of extract_base_metadata after the AI request has returned
BaseAfterAi(file_id, file_info, extraction_result) ==
    IF extraction_result.success.b
    THEN IF _is_template_definition(extraction_result.data.d)
         THEN _extract_base_metadata_fallback(file_id, file_info)
         ELSE extraction_result
    ELSE _extract_base_metadata_fallback(file_id, file_info)

extract_base_metadata(file_id, file_info, ai) ==
    IF file_info.kind = "exception" THEN FileFailure
    ELSE BaseAfterAi(file_id, file_info, _extract_with_box_ai(file_id, "financialDocumentBase", ai))

template_map ==
       (<<"1","0","9","9">> :> "irs1099")
    @@ (<<"W","-","2">> :> "irsw2")
    @@ (<<"A","c","c","o","u","n","t"," ","S","t","a","t","e","m","e","n","t">> :> "accountStatement")
    @@ (<<"M","o","r","t","g","a","g","e"," ","S","t","a","t","e","m","e","n","t">> :> "mortgageStatement")
    @@ (<<"T","r","u","s","t"," ","D","o","c","u","m","e","n","t">> :> "trustDocument")
    @@ (<<"A","s","s","e","t"," ","L","i","s","t">> :> "assetList")
    @@ (<<"1","0","4","0">> :> "irs1040")
    @@ (<<"P","e","r","s","o","n","a","l"," ","F","i","n","a","n","c","i","a","l"," ","S","t","a","t","e","m","e","n","t">> :> "personalFinancialStatement")
    @@ (<<"L","i","f","e"," ","I","n","s","u","r","a","n","c","e"," ","D","o","c","u","m","e","n","t">> :> "lifeInsuranceDocument")
    @@ (<<"O","t","h","e","r">> :> "otherDocument")

\* template_map.get(document_type)
MapGet(map, document_type) ==
    IF document_type.t = "str" /\ document_type.s \in DOMAIN map
    THEN PyKey(map[document_type.s])
    ELSE PyNone

\* the lookup without its default for an unmapped type
_get_template_key_for_document_type_no_default(document_type) ==
    MapGet(template_map, document_type)

_get_template_key_for_document_type(document_type) ==
    IF MapGet(template_map, document_type) # PyNone
    THEN MapGet(template_map, document_type)
    ELSE PyKey("otherDocument")

\* 'not template_key'
NoTemplateKey(template_key) == template_key = PyNone \/ template_key = PyKey("")

_extract_document_type_fallback(file_id, document_type) ==
    Fallback("Fallback document-specific metadata created",
             IF document_type = PyStr(<<"1","0","9","9">>)
             THEN [payerName |-> PyNone, payerTIN |-> PyNone, recipientTIN |-> PyNone,
                   nonemployeeCompensation |-> PyNone]
             ELSE IF document_type = PyStr(<<"W","-","2">>)
             THEN [employerEIN |-> PyNone, wagesAndTips |-> PyNone,
                   federalIncomeTaxWithheld |-> PyNone, socialSecurityWages |-> PyNone]
             ELSE IF document_type = PyStr(<<"A","c","c","o","u","n","t"," ","S","t","a","t","e","m","e","n","t">>)
             THEN [accountNumber |-> PyNone, statementDate |-> PyNone,
                   beginningBalance |-> PyNone, endingBalance |-> PyNone]
             ELSE EmptyDict)

\* the part of extract_document_type_metadata after the AI request has returned
TypeAfterAi(file_id, document_type, extraction_result) ==
    IF extraction_result.success.b THEN extraction_result
    ELSE _extract_document_type_fallback(file_id, document_type)

extract_document_type_metadata(file_id, document_type, ai) ==
    IF NoTemplateKey(_get_template_key_for_document_type(document_type))
    THEN [success |-> PyBool(FALSE), message |-> PyMsg("No template for")]
    ELSE TypeAfterAi(file_id, document_type,
                     _extract_with_box_ai(file_id,
                                          _get_template_key_for_document_type(document_type).name, ai))

\* datetime.now().strftime('%Y-%m-%d') at the time of the run
Str_Today == <<"2","0","2","5","-","0","6","-","3","0">>

_extract_address_validation_fallback(file_id, file_info) ==
    Fallback("Fallback address validation metadata created",
             [street_address |-> PyStr(<< >>), city |-> PyStr(<< >>),
              state_province |-> PyStr(<< >>), postal_code |-> PyStr(<< >>),
              country |-> PyStr(<<"U","S">>), full_address |-> PyStr(<< >>),
              validation_status |-> PyStr(Str_NotValidated),
              date_extracted |-> PyStr(Str_Today)])

\* metadata['date_extracted'] is set when it is missing or falsy
WithDateExtracted(metadata) ==
    IF "date_extracted" \notin DOMAIN metadata \/ ~PyTruthy(metadata.date_extracted)
    THEN [k \in DOMAIN metadata \cup {"date_extracted"} |->
             IF k = "date_extracted" THEN PyStr(Str_Today) ELSE metadata[k]]
    ELSE metadata

\* the part of extract_address_validation_metadata after the AI request has returned
AddressAfterAi(file_id, file_info, extraction_result) ==
    IF extraction_result.success.b
    THEN [extraction_result EXCEPT !.data = PyDict(WithDateExtracted(extraction_result.data.d))]
    ELSE _extract_address_validation_fallback(file_id, file_info)

extract_address_validation_metadata(file_id, file_info, ai) ==
    IF file_info.kind = "exception" THEN FileFailure
    ELSE AddressAfterAi(file_id, file_info, _extract_with_box_ai(file_id, "address_validation", ai))

\* BoxMetadataApplicationService._get_template_key_for_document_type
template_map_application ==
       (<<"1","0","9","9">> :> "irs1099")
    @@ (<<"W","-","2">> :> "irsw2")
    @@ (<<"A","c","c","o","u","n","t"," ","S","t","a","t","e","m","e","n","t">> :> "accountStatement")
    @@ (<<"M","o","r","t","g","a","g","e"," ","S","t","a","t","e","m","e","n","t">> :> "mortgageStatement")
    @@ (<<"T","r","u","s","t"," ","D","o","c","u","m","e","n","t">> :> "trustDocument")
    @@ (<<"A","s","s","e","t"," ","L","i","s","t">> :> "assetList")
    @@ (<<"1","0","4","0">> :> "irs1040")
    @@ (<<"P","e","r","s","o","n","a","l"," ","F","i","n","a","n","c","i","a","l"," ","S","t","a","t","e","m","e","n","t">> :> "personalFinancialStatement")
    @@ (<<"L","i","f","e"," ","I","n","s","u","r","a","n","c","e"," ","D","o","c","u","m","e","n","t">> :> "lifeInsuranceDocument")
    @@ (<<"O","t","h","e","r">> :> "otherDocument")

_get_template_key_for_document_type_application(document_type) ==
    IF MapGet(template_map_application, document_type) # PyNone
    THEN MapGet(template_map_application, document_type)
    ELSE PyKey("otherDocument")

-----------------------------------------------------------------------------
(* Specification of the extraction operations: the Box client answers the  *)
(* file lookup and the AI request in one of the ways below, and one        *)
(* operation at a time is run against those answers.                       *)

ValueField(k, v) == PyDict([key |-> PyKey(k), value |-> v])
PromptField(k, type) ==
    PyDict([key |-> PyKey(k), prompt |-> PyStr(<<"W","h","a","t"," ","i","s"," ","i","t","?">>), type |-> PyStr(type)])

Str_1099 == <<"1","0","9","9">>
Str_Acme == <<"A","c","m","e">>

FieldsValues == <<ValueField("documentType", PyStr(Str_W2)), ValueField("issuerName", PyStr(Str_Acme))>>
FieldsOneValue == <<ValueField("documentType", PyStr(Str_1099))>>
FieldsRepeatedKey == <<ValueField("documentType", PyStr(Str_W2)), ValueField("documentType", PyStr(Str_1099))>>
FieldsAddress == <<ValueField("street_address", PyStr(Str_ElmSt)), ValueField("city", PyStr(Str_Springfield))>>
FieldsEcho == <<PromptField("documentType", <<"e","n","u","m">>), PromptField("issuerName", <<"s","t","r","i","n","g">>)>>
FieldsOneEcho == <<PromptField("documentType", <<"e","n","u","m">>)>>
FieldsMixed == <<ValueField("documentType", PyStr(Str_W2)), PromptField("issuerName", <<"s","t","r","i","n","g">>)>>
FieldsNulls == <<ValueField("documentType", PyNone), ValueField("issuerName", PyStr(<< >>))>>
FieldsNumber == <<PyInt(1)>>

FieldLists ==
    {FieldsValues, FieldsOneValue, FieldsRepeatedKey, FieldsAddress, FieldsEcho, FieldsOneEcho,
     FieldsMixed, FieldsNulls, FieldsNumber, << >>}

\* the keys Box AI adds to a structured-extraction answer
AiKeys == [ai_agent_info |-> PyDict([models |-> PyList(<< >>)]), completion_reason |-> PyStr(<<"d","o","n","e">>)]

Answers ==
    {PyDict([fields |-> PyList(FieldsValues)]), PyDict([fields |-> PyList(FieldsEcho)]),
     PyDict([documentType |-> PyStr(Str_W2)]), PyDict(EmptyDict),
     PyStr(Str_AnswerObject), PyStr(Str_AnswerArray), PyStr(Str_AnswerText)}

\* bodies of a structured-extraction answer, by shape
FieldListBodies == {[fields |-> PyList(l)] : l \in FieldLists}
AiFieldListBodies == {AiKeys @@ b : b \in FieldListBodies}
AnswerBodies == {AiKeys @@ [answer |-> a] : a \in Answers}
DirectBodies ==
    {[documentType |-> PyStr(Str_W2), issuerName |-> PyStr(Str_Acme)],
     AiKeys @@ [documentType |-> PyStr(Str_1099)],
     AiKeys @@ ("$template" :> PyStr(<<"f","i","n","a","n","c","i","a","l","D","o","c","u","m","e","n","t","B","a","s","e">>))}
EntriesBodies ==
    {[entries |-> PyList(<<PyDict([metadata |-> PyDict([documentType |-> PyStr(Str_1099)])])>>)],
     [entries |-> PyList(<<PyDict([id |-> PyStr(<<"1">>)])>>)],
     [entries |-> PyList(<< >>)]}
\* bodies with bookkeeping keys only, or with nothing
BookkeepingBodies ==
    {EmptyDict, AiKeys, [completion_reason |-> PyStr(<<"d","o","n","e">>)],
     [type |-> PyStr(<<"a","i","_","r","e","s","p","o","n","s","e">>), id |-> PyStr(<<"1">>)],
     [fields |-> PyStr(<<"n","o","n","e">>)]}
\* bodies that carry a result key of their own
FlaggedBodies ==
    {[success |-> PyBool(TRUE)] @@ b :
        b \in {AiKeys @@ [fields |-> PyList(FieldsValues)],
               AiKeys @@ [fields |-> PyList(FieldsEcho)],
               AiKeys @@ [answer |-> PyStr(Str_AnswerText)],
               AiKeys @@ [answer |-> PyDict([documentType |-> PyStr(Str_W2)])],
               [fields |-> PyList(FieldsValues)],
               [metadata |-> PyDict([documentType |-> PyStr(Str_W2)])],
               [type |-> PyStr(<<"a","i","_","r","e","s","p","o","n","s","e">>)]}}

\* bodies that match the answer shape and the entries shape at once
AnswerAndEntriesBodies ==
    {AiKeys @@ [answer |-> PyDict([documentType |-> PyStr(Str_W2)]),
                entries |-> PyList(<<PyDict([metadata |-> PyDict([documentType |-> PyStr(Str_1099)])])>>)],
     AiKeys @@ [answer |-> PyStr(Str_AnswerObject),
                entries |-> PyList(<<PyDict([metadata |-> PyDict([documentType |-> PyStr(Str_1099)])])>>)]}

Bodies ==
    FieldListBodies \cup AiFieldListBodies \cup AnswerBodies \cup DirectBodies
        \cup EntriesBodies \cup BookkeepingBodies \cup FlaggedBodies
        \cup AnswerAndEntriesBodies

\* what make_request does
AiOutcomes ==
    {[kind |-> "exception"]}
        \cup {[kind |-> "response", status |-> 200, json |-> b] : b \in Bodies}
        \cup {[kind |-> "response", status |-> s, json |-> [fields |-> PyList(FieldsValues)]] : s \in {202, 500}}

\* names of uploaded files
DocumentNames == {<<"W","2","_","2","0","2","3",".","p","d","f">>, <<"B","a","n","k"," ","S","t","a","t","e","m","e","n","t",".","p","d","f">>, <<"s","t","a","t","e","m","e","n","t",".","p","d","f">>, <<"s","c","a","n","_","0","0","1",".","p","d","f">>}

\* what client.file(file_id).get() does
FileOutcomes == {[kind |-> "exception"]} \cup {[kind |-> "ok", name |-> n] : n \in DocumentNames}

\* document types handed to the type-specific operations
DocumentTypes ==
    {PyStr(Str_W2), PyStr(Str_1099), PyStr(<<"A","c","c","o","u","n","t"," ","S","t","a","t","e","m","e","n","t">>), PyStr(<<"O","t","h","e","r">>),
     PyStr(<<"U","n","k","n","o","w","n">>), PyStr(<<"w","-","2">>), PyStr(<< >>), PyNone}

ExtractFile == "f1"

InitExtract ==
    /\ extIn \in {[file_info |-> f, ai |-> a] : f \in FileOutcomes, a \in AiOutcomes}
    /\ extOut = [op |-> "none"]
    /\ IdleLedger /\ IdleCls /\ IdleApply /\ IdleSan /\ IdlePipe /\ IdleConc

ExtractWithBoxAi ==
    /\ \E template_key \in {"financialDocumentBase", "address_validation"} :
          extOut' = [op |-> "_extract_with_box_ai", template_key |-> template_key,
                     result |-> _extract_with_box_ai(ExtractFile, template_key, extIn.ai)]
    /\ UNCHANGED <<extIn, ledgerVars, clsVars, applyVars, sanVars, pipe, concVars>>

\* the apply operations are handed the raw body, or the result of the extraction
ExtractMetadataValues ==
    /\ extIn.ai.kind = "response"
    /\ \E arg \in {extIn.ai.json, _extract_with_box_ai(ExtractFile, "financialDocumentBase", extIn.ai)} :
          extOut' = [op |-> "_extract_metadata_values", arg |-> arg,
                     result |-> _extract_metadata_values(arg)]
    /\ UNCHANGED <<extIn, ledgerVars, clsVars, applyVars, sanVars, pipe, concVars>>

ExtractBase ==
    /\ extOut' = [op |-> "extract_base_metadata",
                  result |-> extract_base_metadata(ExtractFile, extIn.file_info, extIn.ai)]
    /\ UNCHANGED <<extIn, ledgerVars, clsVars, applyVars, sanVars, pipe, concVars>>

ExtractDocumentType ==
    /\ \E document_type \in DocumentTypes :
          extOut' = [op |-> "extract_document_type_metadata", document_type |-> document_type,
                     template_key |-> _get_template_key_for_document_type(document_type),
                     template_key_application |->
                         _get_template_key_for_document_type_application(document_type),
                     result |-> extract_document_type_metadata(ExtractFile, document_type, extIn.ai)]
    /\ UNCHANGED <<extIn, ledgerVars, clsVars, applyVars, sanVars, pipe, concVars>>

ExtractAddressValidation ==
    /\ extOut' = [op |-> "extract_address_validation_metadata",
                  result |-> extract_address_validation_metadata(ExtractFile, extIn.file_info, extIn.ai)]
    /\ UNCHANGED <<extIn, ledgerVars, clsVars, applyVars, sanVars, pipe, concVars>>

NextExtract ==
    \/ ExtractWithBoxAi
    \/ ExtractMetadataValues
    \/ ExtractBase
    \/ ExtractDocumentType
    \/ ExtractAddressValidation

SpecExtract == InitExtract /\ [][NextExtract]_vars

\* the body of an answered request with a success status
Answered == extIn.ai.kind = "response" /\ extIn.ai.status \in {200, 202}

\* every entry of the field list of the body has a key and a value
AllValues(body) ==
    /\ HasList(body, "fields")
    /\ body.fields.items # << >>
    /\ \A i \in 1..Len(body.fields.items) : HasKeyAndValue(body.fields.items[i])

\* every entry of the field list of the body has a prompt and no value
AllPrompts(body) ==
    /\ HasList(body, "fields")
    /\ body.fields.items # << >>
    /\ \A i \in 1..Len(body.fields.items) :
          /\ body.fields.items[i].t = "dict"
          /\ "prompt" \in DOMAIN body.fields.items[i].d
          /\ "value" \notin DOMAIN body.fields.items[i].d

\* the mapping holds the key/value pairs of the field list and nothing else
ExactlyThePairs(mapping, fields) ==
    /\ DOMAIN mapping = {fields[i].d.key.name : i \in 1..Len(fields)}
    /\ \A k \in DOMAIN mapping :
          \E i \in 1..Len(fields) : fields[i].d.key.name = k /\ fields[i].d.value = mapping[k]

\* the operation was run on the raw body of the answer
OnRawBody == extOut.op = "_extract_metadata_values" /\ extOut.arg = extIn.ai.json

\* C12: a field list with a key and a value on every entry is interpreted as exactly
\* those pairs, and a field list of prompts without values as an empty mapping, by
\* _extract_with_box_ai and by _extract_metadata_values on the same raw body.
C12_FieldListInterpretation ==
    /\ (Answered /\ extOut.op = "_extract_with_box_ai" /\ AllValues(extIn.ai.json)) =>
          /\ extOut.result.success.b
          /\ ExactlyThePairs(extOut.result.data.d, extIn.ai.json.fields.items)
    /\ (Answered /\ extOut.op = "_extract_with_box_ai" /\ AllPrompts(extIn.ai.json)) =>
          /\ "data" \in DOMAIN extOut.result => DOMAIN extOut.result.data.d = {}
    /\ (Answered /\ OnRawBody /\ AllValues(extIn.ai.json)) =>
          /\ extOut.result.t = "dict"
          /\ ExactlyThePairs(extOut.result.d, extIn.ai.json.fields.items)
    /\ (Answered /\ OnRawBody /\ AllPrompts(extIn.ai.json)) =>
          extOut.result = PyDict(EmptyDict)

BookkeepingKeys == ExcludedFields \cup ResultKeys \cup DollarKeys

\* a body that is none of: field list, direct key/value object, answer, entries
UnknownShape(body) ==
    /\ DOMAIN body \subseteq BookkeepingKeys
    /\ ~HasList(body, "fields")

\* C13: a response of unknown or empty shape is interpreted as an empty mapping,
\* without raising and without handing the raw response on as the fields.
C13_UnknownShapeIsEmpty ==
    /\ (Answered /\ extOut.op = "_extract_with_box_ai" /\ UnknownShape(extIn.ai.json)) =>
          /\ extOut.result.success.b
          /\ DOMAIN extOut.result.data.d = {}
    /\ (Answered /\ OnRawBody /\ UnknownShape(extIn.ai.json)) =>
          extOut.result = PyDict(EmptyDict)

ExtractOps ==
    {"extract_base_metadata", "extract_document_type_metadata", "extract_address_validation_metadata"}

\* C14: extract_base_metadata, extract_document_type_metadata and
\* extract_address_validation_metadata return success=true whatever the remote
\* calls do (exception, non-success status, any body).
C14_ExtractionAlwaysSucceeds ==
    extOut.op \in ExtractOps => extOut.result.success.b

\* every value of the field list of the body is None or empty
AllEmptyValues(body) ==
    /\ AllValues(body)
    /\ \A i \in 1..Len(body.fields.items) : body.fields.items[i].d.value \in EmptyValues

\* every entry of the field list of the body has a prompt and a type and no value
AllDefinitions(body) ==
    /\ AllPrompts(body)
    /\ \A i \in 1..Len(body.fields.items) : "type" \in DOMAIN body.fields.items[i].d

\* a schema echo: the field list, at the top or in the answer, restates the schema
\* or resolves to empty values only
SchemaEcho(body) ==
    \/ AllDefinitions(body)
    \/ AllEmptyValues(body)
    \/ /\ {"completion_reason", "ai_agent_info"} \subseteq DOMAIN body
       /\ ~HasList(body, "fields")
       /\ "entries" \notin DOMAIN body
       /\ HasDict(body, "answer")
       /\ AllDefinitions(body.answer.d)

FallbackMessages ==
    [extract_base_metadata |-> PyMsg("Fallback metadata extraction completed"),
     extract_document_type_metadata |-> PyMsg("Fallback document-specific metadata created"),
     extract_address_validation_metadata |-> PyMsg("Fallback address validation metadata created")]

\* the last operation returned its fallback result
UsedFallback == extOut.result.message = FallbackMessages[extOut.op]

\* C15: when the provider answers the base request with a schema echo,
\* extract_base_metadata returns the fallback: success=true and the documentType
\* guessed from the file name, not the provider's data.
C15_BaseSchemaEchoFallsBack ==
    (/\ extOut.op = "extract_base_metadata"
     /\ extIn.file_info.kind = "ok"
     /\ Answered
     /\ SchemaEcho(extIn.ai.json)) =>
        /\ extOut.result.success.b
        /\ UsedFallback
        /\ DOMAIN extOut.result.data.d = {"documentType", "documentDate", "issuerName", "recipientName"}
        /\ extOut.result.data.d.documentType = PyStr(GuessDocumentType(str_lower(extIn.file_info.name)))

C15_Witness ==
    /\ extOut.op = "extract_base_metadata"
    /\ extIn.file_info.kind = "ok"
    /\ extIn.file_info.name = <<"W","2","_","2","0","2","3",".","p","d","f">>
    /\ Answered
    /\ extIn.ai.json = [fields |-> PyList(FieldsOneEcho)]
    /\ UsedFallback
    /\ extOut.result.data.d.documentType = PyStr(Str_W2)

\* C16: when the provider answers a type-specific or an address request with a
\* schema echo or an unrecognized body, extract_document_type_metadata and
\* extract_address_validation_metadata return their fallback skeleton.
C16_SchemaEchoFallsBack ==
    (/\ extOut.op \in {"extract_document_type_metadata", "extract_address_validation_metadata"}
     /\ extIn.file_info.kind = "ok"
     /\ Answered
     /\ SchemaEcho(extIn.ai.json) \/ UnknownShape(extIn.ai.json)) =>
        /\ extOut.result.success.b
        /\ UsedFallback

-----------------------------------------------------------------------------
(* The per-document pipelines: DocumentProcessingService                   *)
(* .process_uploaded_document, the view process_document_metadata and      *)
(* process_single_file of the view process_documents_metadata_batch.       *)

AttributeError == [t |-> "AttributeError"]

RECURSIVE FieldDocumentType(_, _)
\* the loop over metadata_result['fields']: field.get('key') == 'documentType'
FieldDocumentType(fields, i) ==
    IF i > Len(fields) THEN PyNone
    ELSE IF fields[i].t # "dict" THEN AttributeError
    ELSE IF /\ "key" \in DOMAIN fields[i].d
            /\ fields[i].d.key = PyKey("documentType")
            /\ "value" \in DOMAIN fields[i].d
    THEN fields[i].d.value
    ELSE FieldDocumentType(fields, i + 1)

_get_document_type_from_metadata(metadata_result) ==
    IF DOMAIN metadata_result = {} THEN PyNone
    ELSE IF HasDict(metadata_result, "answer") /\ "documentType" \in DOMAIN metadata_result.answer.d
    THEN metadata_result.answer.d.documentType
    ELSE IF "documentType" \in DOMAIN metadata_result THEN metadata_result.documentType
    ELSE IF HasList(metadata_result, "fields")
    THEN FieldDocumentType(metadata_result.fields.items, 1)
    ELSE PyNone

NotRun == [t |-> "not_run"]

ServiceStages ==
    <<"base_extraction", "base_apply", "type_determination", "type_extraction", "type_apply">>

\* what a run leaves: the stages performed in order, the base extraction result,
\* the document type and the success flag and message of the returned dict
Run(stages, base, document_type, success, message) ==
    [stages |-> stages, base |-> base, document_type |-> document_type,
     success |-> success, message |-> message]

\* process_uploaded_document after step 1 has returned base_metadata_result; the
\* results of the apply operations are not inspected
ServiceAfterBase(base_metadata_result, document_type) ==
    IF DOMAIN base_metadata_result = {}
    THEN Run(SubSeq(ServiceStages, 1, 1), base_metadata_result, PyNone,
             FALSE, "Base metadata extraction failed")
    ELSE IF document_type = AttributeError
    THEN Run(SubSeq(ServiceStages, 1, 3), base_metadata_result, PyNone,
             FALSE, "Document processing error")
    ELSE IF ~PyTruthy(document_type)
    THEN Run(SubSeq(ServiceStages, 1, 3), base_metadata_result, document_type,
             TRUE, "Applied base metadata only, could not determine document type")
    ELSE Run(ServiceStages, base_metadata_result, document_type,
             TRUE, "Successfully processed document with type")

process_uploaded_document(file_id, in) ==
    ServiceAfterBase(extract_base_metadata(file_id, in.base_file, in.base_ai),
                     _get_document_type_from_metadata(
                         extract_base_metadata(file_id, in.base_file, in.base_ai)))

ViewStages ==
    <<"file_lookup", "base_template", "base_extraction", "type_determination",
      "address_template", "address_extraction", "address_apply", "address_comparison">>

\* the extracted address as compare_addresses reads it
ToAddress(data) ==
    [k \in DOMAIN data \cap (AddrKeys \cup {"full_address"}) |->
        IF data[k].t = "str" THEN data[k].s ELSE None]

\* apply_address_validation_metadata: nothing is applied for empty metadata,
\* otherwise the metadata store decides
AddressApplySucceeds(store_ok, data) == DOMAIN data # {} /\ store_ok

\* the address step after extract_address_validation_metadata has returned: the
\* number of stages performed and the ledger afterwards
ViewAfterAddressExtraction(in, onb, led, file_id, address_extraction) ==
    IF ~address_extraction.success.b THEN [n |-> 6, ledger |-> led]
    ELSE IF ~AddressApplySucceeds(in.address_apply, address_extraction.data.d)
    THEN [n |-> 7, ledger |-> led]
    ELSE [n |-> 8,
          ledger |-> compare_addresses(onb, led, in.user, ToAddress(address_extraction.data.d),
                                       file_id, in.view_file.name).ledger]

\* step 5 of the view: an error with the template ends the address step
ViewAddress(in, onb, led, file_id) ==
    IF in.address_template = "error" THEN [n |-> 5, ledger |-> led]
    ELSE ViewAfterAddressExtraction(in, onb, led, file_id,
             extract_address_validation_metadata(file_id, in.address_file, in.address_ai))

\* documentType of application_result['data']
ViewDocumentType(extraction_result) ==
    IF "documentType" \in DOMAIN extraction_result.data.d
    THEN extraction_result.data.d.documentType
    ELSE PyNone

\* the view after step 2 has returned extraction_result
ViewAfterBase(in, onb, led, file_id, extraction_result) ==
    IF ~extraction_result.success.b
    THEN [run |-> Run(SubSeq(ViewStages, 1, 3), extraction_result, PyNone,
                      FALSE, "Metadata extraction failed"),
          ledger |-> led]
    ELSE [run |-> Run(SubSeq(ViewStages, 1, ViewAddress(in, onb, led, file_id).n),
                      extraction_result, ViewDocumentType(extraction_result),
                      TRUE, "Successfully processed document"),
          ledger |-> ViewAddress(in, onb, led, file_id).ledger]

\* a GET of process_document_metadata for file_id, without custom request data
process_document_metadata(in, onb, led, file_id) ==
    IF in.view_file.kind = "exception"
    THEN [run |-> Run(SubSeq(ViewStages, 1, 1), NotRun, PyNone, FALSE, "Could not access file"),
          ledger |-> led]
    ELSE ViewAfterBase(in, onb, led, file_id,
                       extract_base_metadata(file_id, in.base_file, in.base_ai))

BatchStages == <<"file_lookup", "base_extraction", "type_determination">>

\* process_single_file after its step 2: application and address validation are skipped
BatchAfterBase(extraction_result) ==
    IF ~extraction_result.success.b
    THEN Run(SubSeq(BatchStages, 1, 2), extraction_result, PyNone,
             FALSE, "Base metadata extraction failed")
    ELSE Run(BatchStages, extraction_result, ViewDocumentType(extraction_result),
             TRUE, "Metadata processing completed successfully")

process_single_file(file_id, in) ==
    IF in.view_file.kind = "exception"
    THEN Run(SubSeq(BatchStages, 1, 1), NotRun, PyNone, FALSE, "Could not access file")
    ELSE BatchAfterBase(extract_base_metadata(file_id, in.base_file, in.base_ai))

-----------------------------------------------------------------------------
(* Specification of the pipelines: one run of one pipeline on one file     *)

\* what the AI request of a stage is answered with
PipelineAi ==
    {[kind |-> "exception"],
     [kind |-> "response", status |-> 200, json |-> [fields |-> PyList(FieldsValues)]],
     [kind |-> "response", status |-> 200, json |-> [fields |-> PyList(FieldsOneEcho)]],
     [kind |-> "response", status |-> 200, json |-> [fields |-> PyList(FieldsAddress)]]}

PipelineFiles == {[kind |-> "exception"], [kind |-> "ok", name |-> <<"W","2","_","2","0","2","3",".","p","d","f">>]}

\* the template record is there, is created after a 404, or the request fails
TemplateOutcomes == {"exists", "created", "error"}

ServiceInputs ==
    {[base_file |-> bf, base_ai |-> ba, base_apply |-> a1, type_ai |-> ta, type_apply |-> a2] :
        bf \in PipelineFiles, ba \in PipelineAi, a1 \in BOOLEAN, ta \in PipelineAi, a2 \in BOOLEAN}

ViewInputs ==
    {[user |-> "u1", view_file |-> vf, base_template |-> bt, base_file |-> bf, base_ai |-> ba,
      address_template |-> at, address_file |-> af, address_ai |-> aa, address_apply |-> ap] :
        vf \in PipelineFiles, bt \in TemplateOutcomes, bf \in PipelineFiles, ba \in PipelineAi,
        at \in TemplateOutcomes, af \in PipelineFiles, aa \in PipelineAi, ap \in BOOLEAN}

BatchInputs ==
    {[view_file |-> vf, base_file |-> bf, base_ai |-> ba] :
        vf \in PipelineFiles, bf \in PipelineFiles, ba \in PipelineAi}

PipelineFile == "f1"

InitPipeline ==
    /\ pipe = [pipeline |-> "none"]
    /\ onboarding \in {[u \in Users |-> NoInfo], [u \in Users |-> IF u = "u1" THEN AddrA ELSE NoInfo]}
    /\ ledger = {}
    /\ cmp = Idle
    /\ IdleCls /\ IdleApply /\ IdleSan /\ IdleExt /\ IdleConc

ProcessUploadedDocument ==
    /\ pipe.pipeline = "none"
    /\ \E in \in ServiceInputs :
          pipe' = [pipeline |-> "process_uploaded_document", in |-> in,
                   run |-> process_uploaded_document(PipelineFile, in)]
    /\ UNCHANGED <<ledgerVars, clsVars, applyVars, sanVars, extVars, concVars>>

ProcessDocumentMetadata ==
    /\ pipe.pipeline = "none"
    /\ \E in \in ViewInputs :
          \E r \in {process_document_metadata(in, onboarding, ledger, PipelineFile)} :
              /\ pipe' = [pipeline |-> "process_document_metadata", in |-> in, run |-> r.run]
              /\ ledger' = r.ledger
    /\ UNCHANGED <<onboarding, cmp, clsVars, applyVars, sanVars, extVars, concVars>>

ProcessSingleFile ==
    /\ pipe.pipeline = "none"
    /\ \E in \in BatchInputs :
          pipe' = [pipeline |-> "process_single_file", in |-> in,
                   run |-> process_single_file(PipelineFile, in)]
    /\ UNCHANGED <<ledgerVars, clsVars, applyVars, sanVars, extVars, concVars>>

NextPipeline ==
    \/ ProcessUploadedDocument
    \/ ProcessDocumentMetadata
    \/ ProcessSingleFile

SpecPipeline == InitPipeline /\ [][NextPipeline]_vars

\* a pipeline has run
Done == pipe.pipeline # "none"

\* the stage was performed in the run
Ran(stage) == \E i \in 1..Len(pipe.run.stages) : pipe.run.stages[i] = stage

\* base extraction returned a result, genuine or fallback, with a non-empty documentType
BaseHasDocumentType ==
    /\ Ran("base_extraction")
    /\ pipe.run.base.success.b
    /\ "documentType" \in DOMAIN pipe.run.base.data.d
    /\ PyTruthy(pipe.run.base.data.d.documentType)

\* C18: process_uploaded_document runs its stages in the order base extraction,
\* base apply, type determination, type-specific extraction, type-specific apply, and
\* attempts the two type-specific stages whenever base extraction returned fields
\* with a non-empty documentType.
C18_TypeStagesAttempted ==
    (Done /\ pipe.pipeline = "process_uploaded_document") =>
        /\ pipe.run.stages = SubSeq(ServiceStages, 1, Len(pipe.run.stages))
        /\ BaseHasDocumentType => (Ran("type_extraction") /\ Ran("type_apply"))

\* base extraction was performed and returned success=false
BaseFailed == Ran("base_extraction") /\ ~pipe.run.base.success.b

\* C19: a base extraction that returns success=false makes the pipeline report
\* failure with no stage after it, and nothing else that fails in a stage makes
\* the pipeline report failure.
C19_OnlyBaseFailureAborts ==
    Done =>
        /\ BaseFailed =>
              /\ ~pipe.run.success
              /\ pipe.run.stages[Len(pipe.run.stages)] = "base_extraction"
        /\ (~pipe.run.success /\ Ran("base_extraction")) => BaseFailed

\* C20: when the document type cannot be determined from the base extraction
\* result, the pipeline skips the type-specific stage and still performs address
\* extraction, address apply and address comparison.
C20_AddressStagesWithoutType ==
    (/\ Done
     /\ pipe.pipeline \in {"process_uploaded_document", "process_document_metadata"}
     /\ Ran("type_determination")
     /\ ~BaseFailed
     /\ ~PyTruthy(pipe.run.document_type)) =>
        /\ ~Ran("type_extraction")
        /\ Ran("address_extraction")
        /\ Ran("address_apply")
        /\ Ran("address_comparison")

-----------------------------------------------------------------------------
(* Claims about the ledger after an address change, across keys and users  *)

\* compare_address_components followed by determine_mismatch_type finds every
\* component of the row's extracted address matching the stored address
MatchesOnAllFour(client_info, row) ==
    determine_mismatch_type(compare_address_components(client_info, ExtractedOf(row)))
        = NoMismatch

\* C23: every step that changes a client's stored address (onboarding save,
\* single or group resolution with useExtractedAddress) leaves no unresolved
\* row of that client whose extracted address matches the new stored address
\* on all four components.
C23_RerunAfterAddressChange ==
    [][\A u \in Users :
          onboarding'[u] # onboarding[u] =>
              \A r \in ledger' :
                  (r.client = u /\ ~r.resolved) => ~MatchesOnAllFour(onboarding'[u], r)]_vars

-----------------------------------------------------------------------------
(* views.process_documents_metadata_batch: the thread pool                 *)

\* ThreadPoolExecutor(max_workers=5)
max_workers == 5

\* the longest fileIds list of the model: one more than the pool has threads
MaxBatch == 6

\* what the Box client answers for one submitted file: everything works, the
\* file lookup of process_single_file raises, the lookup inside
\* extract_base_metadata raises
BatchOk ==
    [view_file |-> [kind |-> "ok", name |-> <<"W","2","_","2","0","2","3",".","p","d","f">>],
     base_file |-> [kind |-> "ok", name |-> <<"W","2","_","2","0","2","3",".","p","d","f">>],
     base_ai |-> [kind |-> "response", status |-> 200, json |-> [fields |-> PyList(FieldsValues)]]]
BatchNoFile == [BatchOk EXCEPT !.view_file = [kind |-> "exception"]]
BatchNoBase == [BatchOk EXCEPT !.base_file = [kind |-> "exception"]]

BatchAnswers == {BatchOk, BatchNoFile, BatchNoBase}

\* a request body and what the Box side will answer to each submitted file:
\* every list of one or two file ids with every combination of answers, and
\* one list longer than the pool
BatchBodies ==
    {[file_ids |-> <<>>, answers |-> <<>>]}
    \cup {[file_ids |-> <<f>>, answers |-> <<a>>] : f \in Files, a \in BatchAnswers}
    \cup {[file_ids |-> <<f, g>>, answers |-> <<a, b>>] :
            f \in {"f1"}, g \in Files, a \in BatchAnswers, b \in BatchAnswers}
    \cup {[file_ids |-> <<"f1", "f2", "f1", "f2", "f1", "f2">>,
           answers |-> <<BatchNoFile, BatchOk, BatchNoFile, BatchNoFile, BatchNoFile, BatchNoBase>>]}

\* get_box_client() returns the client or raises
ClientOutcomes == {"client", "raises"}

ThreadIds == 1..MaxBatch

\* a thread that holds no work item has future 0; futures are numbered from 1
WaitingThread == [state |-> "waiting", future |-> 0, stage |-> 0]
NoThread == [state |-> "none", future |-> 0, stage |-> 0]

PendingFuture == [state |-> "pending", result |-> NotRun]

Received(body, client) ==
    [phase |-> "received", client |-> client, file_ids |-> body.file_ids,
     answers |-> body.answers, status |-> "-",
     threads |-> [w \in ThreadIds |-> NoThread], idle_semaphore |-> 0,
     work_queue |-> <<>>, futures |-> <<>>, results |-> EmptyBag]

Responded(b, status) == [b EXCEPT !.phase = "responded", !.status = status]

\* the number of worker threads of the executor
NumThreads(b) == Cardinality({w \in ThreadIds : b.threads[w].state # "none"})

\* mutant: the executor starts a thread for every submitted task
MaySpawn_unbounded(b) == TRUE

\* ThreadPoolExecutor._adjust_thread_count: a thread is started only below max_workers
MaySpawn(b) == NumThreads(b) < max_workers

\* the lowest-numbered thread in the given state
FirstThread(threads, state) ==
    CHOOSE w \in ThreadIds :
        threads[w].state = state /\ \A v \in ThreadIds : threads[v].state = state => w <= v

\* executor.submit: the work item is queued, then no thread is started if the
\* idle semaphore can be acquired (a thread has finished an item since the
\* last acquire), otherwise one is started below the limit
Submitted(b) ==
    IF b.idle_semaphore > 0
    THEN [b EXCEPT !.futures = Append(@, PendingFuture),
                   !.work_queue = Append(@, Len(b.futures) + 1),
                   !.idle_semaphore = @ - 1]
    ELSE IF MaySpawn(b)
    THEN [b EXCEPT !.futures = Append(@, PendingFuture),
                   !.work_queue = Append(@, Len(b.futures) + 1),
                   !.threads[FirstThread(b.threads, "none")] = WaitingThread]
    ELSE [b EXCEPT !.futures = Append(@, PendingFuture),
                   !.work_queue = Append(@, Len(b.futures) + 1)]

\* the result dictionary a future ends with: process_single_file returns it
FileResult(file_id, run) ==
    [fileId |-> file_id, success |-> run.success, message |-> run.message, run |-> run]

\* the element appended to results for future i.  The list is filled in the
\* order in which the futures complete and nothing reads that order, so
\* results is kept as the bag of the appended elements.
Collected(b, i) ==
    IF b.futures[i].state = "raised"
    THEN [future |-> i,
          result |-> [fileId |-> b.file_ids[i], success |-> FALSE,
                      message |-> "Exception during processing", run |-> NotRun]]
    ELSE [future |-> i, result |-> b.futures[i].result]

IsCollected(b, i) == \E e \in BagToSet(b.results) : e.future = i

\* mutant: only the futures that ended in success are handed to the loop
as_completed_successful_only(b) ==
    {i \in 1..Len(b.futures) :
        /\ b.futures[i].state = "finished"
        /\ b.futures[i].result.success
        /\ ~IsCollected(b, i)}

\* the futures as_completed can yield next: done and not yet yielded
as_completed(b) ==
    {i \in 1..Len(b.futures) :
        b.futures[i].state \in {"finished", "raised"} /\ ~IsCollected(b, i)}

-----------------------------------------------------------------------------
(* Specification of one batch request                                      *)

InitBatch ==
    /\ batch \in {Received(body, client) : body \in BatchBodies, client \in ClientOutcomes}
    /\ inflight = Idle
    /\ IdleLedger /\ IdleCls /\ IdleApply /\ IdleSan /\ IdleExt /\ IdlePipe

\* the request is parsed and the Box client is obtained
BatchStart ==
    /\ batch.phase = "received"
    /\ batch' = IF batch.file_ids = <<>> THEN Responded(batch, "400")
                ELSE IF batch.client = "raises" THEN Responded(batch, "500")
                ELSE [batch EXCEPT !.phase = "submitting"]

\* executor.submit(process_single_file, file_id) for the next element of file_ids
Submit ==
    /\ batch.phase = "submitting"
    /\ Len(batch.futures) < Len(batch.file_ids)
    /\ batch' = Submitted(batch)

\* a worker thread blocked in work_queue.get takes the next work item.  The
\* waiting threads are interchangeable: the lowest-numbered one stands for
\* whichever of them the queue wakes up.
TakeWork(w) ==
    /\ batch.phase = "submitting"
    /\ batch.threads[w].state = "waiting"
    /\ w = FirstThread(batch.threads, "waiting")
    /\ batch.work_queue # <<>>
    /\ batch' = [batch EXCEPT
                    !.threads[w] = [state |-> "running", future |-> Head(batch.work_queue),
                                    stage |-> 0],
                    !.work_queue = Tail(@),
                    !.futures[Head(batch.work_queue)].state = "running"]

\* the worker performs the next stage of process_single_file; after the last
\* stage the function returns, the future is done, the idle semaphore is
\* released and the thread waits on the queue again
StageOf(b, w, run) ==
    IF b.threads[w].stage + 1 < Len(run.stages)
    THEN [b EXCEPT !.threads[w].stage = @ + 1]
    ELSE [b EXCEPT !.threads[w] = WaitingThread,
                   !.idle_semaphore = @ + 1,
                   !.futures[b.threads[w].future] =
                       [state |-> "finished",
                        result |-> FileResult(b.file_ids[b.threads[w].future], run)]]

WorkerStep(w) ==
    /\ batch.phase = "submitting"
    /\ batch.threads[w].state = "running"
    /\ batch' = StageOf(batch, w,
                        process_single_file(batch.file_ids[batch.threads[w].future],
                                            batch.answers[batch.threads[w].future]))

\* one turn of the loop over as_completed, entered once every task is submitted
Collect ==
    /\ batch.phase = "submitting"
    /\ Len(batch.futures) = Len(batch.file_ids)
    /\ \E i \in as_completed(batch) :
          batch' = [batch EXCEPT !.results = @ (+) SetToBag({Collected(batch, i)})]

\* the with block is left once the loop has ended and the response is returned
Respond ==
    /\ batch.phase = "submitting"
    /\ Len(batch.futures) = Len(batch.file_ids)
    /\ \A i \in 1..Len(batch.futures) : IsCollected(batch, i)
    /\ batch' = Responded(batch, "200")

NextBatch ==
    /\ \/ BatchStart
       \/ Submit
       \/ \E w \in ThreadIds : TakeWork(w)
       \/ \E w \in ThreadIds : WorkerStep(w)
       \/ Collect
       \/ Respond
    /\ UNCHANGED <<ledgerVars, clsVars, applyVars, sanVars, extVars, pipe, inflight>>

SpecBatch == InitBatch /\ [][NextBatch]_vars

\* every thread that can run does run, and the remote calls of a stage return
SpecBatchLive == SpecBatch /\ WF_vars(NextBatch)

-----------------------------------------------------------------------------
(* Claims about the batch                                                  *)

NonEmptyBatch == batch.file_ids # <<>>

ClientObtained == batch.client = "client"

\* what process_single_file returns for the i-th submitted file, computed from
\* the answers the Box side gives for that file alone
OwnResult(b, i) ==
    [future |-> i,
     result |-> FileResult(b.file_ids[i], process_single_file(b.file_ids[i], b.answers[i]))]

\* the batch has answered with one result for each element of fileIds, each
\* one the result of its own file
OneResultEach ==
    /\ batch.phase = "responded"
    /\ batch.status = "200"
    /\ BagCardinality(batch.results) = Len(batch.file_ids)
    /\ \A i \in 1..Len(batch.file_ids) : CopiesIn(OwnResult(batch, i), batch.results) = 1

\* C21 as stated: every batch request with a non-empty list of file ids ends,
\* under every interleaving of the workers, with exactly one result for each
\* submitted file id, each the result that file has on its own.
C21_EveryBatchCollectsAll ==
    (batch.phase = "received" /\ NonEmptyBatch) ~> OneResultEach

\* C21, amended: every batch request with a non-empty list of file ids for
\* which the Box client is obtained ends, under every interleaving of the
\* workers, with exactly one result for each element of the list (a file id
\* that is listed twice has two), each the result that file has on its own: a
\* file that fails has success = false and changes no other result.
C21_BatchCollectsAll ==
    (batch.phase = "received" /\ NonEmptyBatch /\ ClientObtained) ~> OneResultEach

\* the batch of six has answered: one file succeeded, five failed
C21_Witness ==
    /\ OneResultEach
    /\ Len(batch.file_ids) = MaxBatch
    /\ \E e \in BagToSet(batch.results) : e.result.success
    /\ \E e \in BagToSet(batch.results) : ~e.result.success

\* the futures whose function is being run by a worker thread
Running(b) == {i \in 1..Len(b.futures) : b.futures[i].state = "running"}

RunningThreads(b) == {w \in ThreadIds : b.threads[w].state = "running"}

\* C22: at most max_workers = 5 documents are being processed at any moment,
\* each by one worker thread, and a worker that is processing a document
\* either performs the next stage of that document or finishes it: it takes
\* no other document before the future of the first one is done.
C22_BoundedPoolRunsToCompletion ==
    [][/\ Cardinality(Running(batch')) <= max_workers
       /\ Running(batch') = {batch'.threads[w].future : w \in RunningThreads(batch')}
       /\ Cardinality(RunningThreads(batch')) = Cardinality(Running(batch'))
       /\ \A w \in RunningThreads(batch) :
             \/ batch'.threads[w] = batch.threads[w]
             \/ /\ batch'.threads[w].future = batch.threads[w].future
                /\ batch'.threads[w].stage = batch.threads[w].stage + 1
             \/ /\ batch'.threads[w].state = "waiting"
                /\ batch'.futures[batch.threads[w].future].state = "finished"]_vars

\* five documents are being processed and the sixth waits in the queue
C22_Witness ==
    /\ Cardinality(Running(batch)) = max_workers
    /\ batch.work_queue # <<>>

-----------------------------------------------------------------------------
(* Two comparisons for two documents of one client, running at once        *)

\* the stored address after the address of ExPartial has been adopted
AddrOak == MkAddr(Str_OakAve, Str_Springfield, EmptyStr, EmptyStr)

RaceUser == "u1"

RaceFileName == <<"s","t","a","t","e","m","e","n","t",".","p","d","f">>

\* the ledger after one earlier comparison, or unchanged when there was none
Seeded(onb, led, extracted_address, file_id) ==
    IF extracted_address = NoExtracted THEN led
    ELSE compare_addresses(onb, led, RaceUser, extracted_address, file_id, RaceFileName).ledger

SeedPool == {NoExtracted, ExNearA, ExPartial}

\* the ledgers the two comparisons can start from: what earlier comparisons of
\* the two documents have left, with the rows unresolved or marked resolved
StartLedgers(onb) ==
    {IF resolved THEN MarkResolved(led, led) ELSE led :
        led \in {Seeded(onb, Seeded(onb, {}, e1, "f1"), e2, "f2") : e1 \in SeedPool, e2 \in SeedPool},
        resolved \in BOOLEAN}

\* one call of compare_addresses: where it is, its arguments, its locals
Call(file_id, extracted_address) ==
    [pc |-> "get", user |-> RaceUser, file_id |-> file_id, extracted |-> extracted_address,
     client_info |-> NoInfo, result |-> Http("-")]

Calls == {1, 2}

InitCompareRace ==
    /\ onboarding \in {[u \in Users |-> IF u = RaceUser THEN a ELSE NoInfo] : a \in {AddrA, AddrOak}}
    /\ ledger \in StartLedgers(onboarding)
    /\ cmp = Idle
    /\ \E e1 \in ExtractedPool, e2 \in ExtractedPool :
          inflight = [start |-> ledger,
                      calls |-> <<Call("f1", e1), Call("f2", e2)>>]
    /\ batch = Idle
    /\ IdleCls /\ IdleApply /\ IdleSan /\ IdleExt /\ IdlePipe

\* ClientOnboardingInfo.objects.get(user=user)
GetClientInfo(k) ==
    /\ inflight.calls[k].pc = "get"
    /\ inflight' = [inflight EXCEPT !.calls[k].pc = "save",
                                    !.calls[k].client_info = onboarding[inflight.calls[k].user]]
    /\ UNCHANGED <<onboarding, ledger>>

\* the rest of the call: the comparison of the address that was read, then
\* update_or_create or filter(...).delete(), each one transaction
SaveOrDelete(k) ==
    /\ inflight.calls[k].pc = "save"
    /\ \E r \in {compare_addresses(
                    [onboarding EXCEPT ![inflight.calls[k].user] = inflight.calls[k].client_info],
                    ledger, inflight.calls[k].user, inflight.calls[k].extracted,
                    inflight.calls[k].file_id, RaceFileName)} :
          /\ ledger' = r.ledger
          /\ inflight' = [inflight EXCEPT !.calls[k].pc = "done", !.calls[k].result = r.result]
    /\ UNCHANGED onboarding

NextCompareRace ==
    /\ \/ \E k \in Calls : GetClientInfo(k)
       \/ \E k \in Calls : SaveOrDelete(k)
    /\ UNCHANGED <<cmp, clsVars, applyVars, sanVars, extVars, pipe, batch>>

SpecCompareRace == InitCompareRace /\ [][NextCompareRace]_vars

\* the rows without their primary keys: the key of a row is (client, file_id)
WithoutIds(led) == {[c \in DOMAIN r \ {"id"} |-> r[c]] : r \in led}

\* the ledger after call k has run alone and then call j has run alone
OneAfterTheOther(k, j) ==
    compare_addresses(onboarding,
        compare_addresses(onboarding, inflight.start, inflight.calls[k].user,
                          inflight.calls[k].extracted, inflight.calls[k].file_id,
                          RaceFileName).ledger,
        inflight.calls[j].user, inflight.calls[j].extracted, inflight.calls[j].file_id,
        RaceFileName).ledger

OtherKeys(led, call) == {r \in led : r.client # call.user \/ r.file_id # call.file_id}

\* C24: a step of compare_addresses(user, extracted, file_id) changes no row
\* with another (client, file_id) key and never the stored address, and when
\* two comparisons for two documents of one client have both ended, the rows
\* are those of the two calls run one after the other, in either order.
C24_ComparesOfTwoDocumentsCommute ==
    [][/\ onboarding' = onboarding
       /\ \A k \in Calls :
             inflight'.calls[k] # inflight.calls[k] =>
                 OtherKeys(ledger', inflight.calls[k]) = OtherKeys(ledger, inflight.calls[k])
       /\ (\A k \in Calls : inflight'.calls[k].pc = "done") =>
             /\ WithoutIds(ledger') = WithoutIds(OneAfterTheOther(1, 2)')
             /\ WithoutIds(ledger') = WithoutIds(OneAfterTheOther(2, 1)')]_vars

\* both calls have ended, each after the other one had read the stored
\* address: one has written a row while the other has deleted one
C24_Witness ==
    /\ \A k \in Calls : inflight.calls[k].pc = "done"
    /\ \E k \in Calls : inflight.calls[k].result.has_mismatch
    /\ \E k \in Calls : inflight.calls[k].result.deleted_count = 1
    /\ Cardinality(ledger) = 1

-----------------------------------------------------------------------------
(* Claims about resolved rows and about the owner of a row                 *)

ResolutionOps == {"update_address", "mark_resolved", "update_group", "mark_resolved_group"}

\* the row holds the stored address and the extracted address of the call
\* that has just been recorded, and its mismatch type
HoldsSnapshotsOf(row, call, client_info) ==
    /\ row.client_street = client_info.street_address
    /\ row.client_city = client_info.city
    /\ row.client_state = client_info.state_province
    /\ row.client_postal_code = client_info.postal_code
    /\ row.extracted_street = DictGet(call.extracted, "street_address")
    /\ row.extracted_city = DictGet(call.extracted, "city")
    /\ row.extracted_state = DictGet(call.extracted, "state_province")
    /\ row.extracted_postal_code = DictGet(call.extracted, "postal_code")
    /\ row.mismatch_type = call.result.mismatch_type

\* C28: a comparison that reports a mismatch for a (client, file_id) whose row
\* is marked resolved leaves that row unresolved, with the address snapshots
\* and the mismatch type of this comparison; and a row becomes resolved only
\* in a step of one of the resolution endpoints.
C28_ComparisonReopens ==
    [][/\ (/\ cmp'.op = "compare"
           /\ cmp'.result.success
           /\ cmp'.result.has_mismatch
           /\ \E old \in ledger :
                 old.client = cmp'.user /\ old.file_id = cmp'.file_id /\ old.resolved)
          => /\ \E row \in ledger' : row.client = cmp'.user /\ row.file_id = cmp'.file_id
             /\ \A row \in ledger' :
                   (row.client = cmp'.user /\ row.file_id = cmp'.file_id) =>
                       ~row.resolved /\ HoldsSnapshotsOf(row, cmp', onboarding[cmp'.user])
       /\ (\E row \in ledger' :
              row.resolved /\ ~\E old \in ledger : old.id = row.id /\ old.resolved)
          => cmp'.op \in ResolutionOps]_vars

\* a comparison has just updated a row that was marked resolved: it is
\* unresolved again
C28_Witness ==
    /\ cmp.op = "compare"
    /\ cmp.was_resolved
    /\ cmp.result.mismatch_updated
    /\ \E row \in ledger : row.client = cmp.user /\ row.file_id = cmp.file_id /\ ~row.resolved

\* the stored address and the rows of every user but the given one are the same
\* after the step
OthersUntouched(user) ==
    \A other \in Users \ {user} :
        /\ onboarding'[other] = onboarding[other]
        /\ {r \in ledger' : r.client = other} = {r \in ledger : r.client = other}

Owns(user, mismatch_id) == \E r \in ledger : r.id = mismatch_id /\ r.client = user

\* C30: a request to update_client_address or update_client_address_group
\* leaves the stored address and the rows of every other user unchanged, and
\* a request that names a mismatch id the requester does not own (for the
\* group call: any such id in the list) is answered 404 with no address and
\* no row changed.
C30_ResolutionStaysWithRequester ==
    [][/\ \A user \in Users, mismatch_id \in 1..MaxId, use \in BOOLEAN :
             UpdateClientAddress(user, mismatch_id, use) =>
                 /\ OthersUntouched(user)
                 /\ ~Owns(user, mismatch_id) =>
                        /\ cmp'.result.message = "404"
                        /\ UNCHANGED <<onboarding, ledger>>
       /\ \A user \in Users, mismatch_ids \in IdLists \ {<<>>}, use \in BOOLEAN :
             UpdateClientAddressGroup(user, mismatch_ids, use) =>
                 /\ OthersUntouched(user)
                 /\ (\E i \in 1..Len(mismatch_ids) : ~Owns(user, mismatch_ids[i])) =>
                        /\ cmp'.result.message = "404"
                        /\ UNCHANGED <<onboarding, ledger>>]_vars

\* each user holds one row, so every id names a row, and update_client_address
\* has just answered 404: the id of the request was the other user's
C30_Witness ==
    /\ cmp.op = "update_address"
    /\ cmp.result.message = "404"
    /\ \A user \in Users : Cardinality({r \in ledger : r.client = user}) = 1
    /\ \A user \in Users : onboarding[user] # NoInfo

-----------------------------------------------------------------------------
(* Claims about the address step of the single-document flow               *)

\* the address extraction of the view returned the fallback skeleton
FellBackToSkeleton ==
    /\ pipe.pipeline = "process_document_metadata"
    /\ Ran("address_extraction")
    /\ extract_address_validation_metadata(PipelineFile, pipe.in.address_file,
                                           pipe.in.address_ai)
         = _extract_address_validation_fallback(PipelineFile, pipe.in.address_file)

\* the four stored components of the client are all non-empty
AllFourStored(user) ==
    /\ onboarding[user] # NoInfo
    /\ \A k \in AddrKeys : Truthy(onboarding[user][k])

-----------------------------------------------------------------------------
(* BoxMetadataApplicationService.apply_base_metadata                       *)

\* the values of the given fields that are neither None nor ""
NonEmptyFields(metadata_values, fields) ==
    [k \in {key \in DOMAIN metadata_values \cap fields :
                metadata_values[key] \notin {PyNone, PyStr(EmptyStr)}} |-> metadata_values[k]]

\* the record of the file for the template: the create request meets a
\* conflict and the update decides
AttachedRecord == "documentType" :> PyStr(Str_W2)

\* _apply_metadata against a store that accepts the update or refuses it
ApplyToStore(template_key, metadata, store_ok) ==
    _apply_metadata(AttachedRecord, template_key, metadata, "ok", "store_status",
                    IF store_ok THEN "store" ELSE "status_other").result

\* the standard approach: all template fields in one call
ApplyStandard(metadata_values, store_ok) ==
    ApplyToStore("financialDocumentBase",
                 NonEmptyFields(metadata_values,
                                {"documentType", "issuerName", "recipientName",
                                 "accountOrPolicyNoMasked", "isLegible"}),
                 store_ok)

\* the phased approach after the critical fields have been applied
ApplySecondary(secondary_metadata, critical_result, store_ok) ==
    IF DOMAIN secondary_metadata # {}
       /\ ApplyToStore("financialDocumentBase", secondary_metadata, store_ok).success
    THEN Result(TRUE, "Successfully applied metadata in phases")
    ELSE critical_result

ApplyInPhases(metadata_values, critical_metadata, store_ok) ==
    IF "documentType" \in DOMAIN critical_metadata
       /\ ApplyToStore("financialDocumentBase", critical_metadata, store_ok).success
    THEN ApplySecondary(NonEmptyFields(metadata_values,
                                       {"issuerName", "recipientName", "accountOrPolicyNoMasked"}),
                        ApplyToStore("financialDocumentBase", critical_metadata, store_ok),
                        store_ok)
    ELSE ApplyStandard(metadata_values, store_ok)

apply_base_metadata(extracted_metadata, store_ok) ==
    IF _extract_metadata_values(extracted_metadata).t # "dict"
    THEN Result(FALSE, "Error applying base metadata")
    ELSE ApplyInPhases(_extract_metadata_values(extracted_metadata).d,
                       NonEmptyFields(_extract_metadata_values(extracted_metadata).d,
                                      {"documentType", "isLegible"}),
                       store_ok)

\* the returned dictionary has the key 'base_metadata', which holds the result
\* of apply_base_metadata
ReturnsBaseMetadata(run) ==
    run.message \in {"Applied base metadata only, could not determine document type",
                     "Successfully processed document with type",
                     "Applied base metadata only, document type extraction failed"}

\* C25: in process_uploaded_document a base apply that fails (the create and
\* the update are both refused) for a base result with a non-empty
\* documentType is followed by the extraction and the apply of the
\* type-specific schema, and the returned dictionary carries the failed apply
\* result.
C25_FailedBaseApplyIsLocal ==
    (/\ pipe.pipeline = "process_uploaded_document"
     /\ Ran("base_apply")
     /\ BaseHasDocumentType
     /\ ~apply_base_metadata(pipe.run.base, pipe.in.base_apply).success) =>
        /\ Ran("type_extraction")
        /\ Ran("type_apply")
        /\ ReturnsBaseMetadata(pipe.run)

-----------------------------------------------------------------------------
(* Precedence of the response shapes in _extract_with_box_ai.              *)

\* the body carries a non-empty answer object without a field list
HasAnswerObject(body) ==
    /\ {"completion_reason", "ai_agent_info"} \subseteq DOMAIN body
    /\ HasDict(body, "answer")
    /\ ~HasList(body.answer.d, "fields")
    /\ DOMAIN body.answer.d # {}

\* the body carries a legacy entries container with at least one entry
HasEntries(body) == "entries" \in DOMAIN body /\ Len(body.entries.items) > 0

\* C26: a response without an explicit field list that carries both an
\* answer object and an entries container is read from the answer: the data
\* of the extraction result are the key/value pairs of the answer, not the
\* metadata of the first entry.
C26_AnswerBeforeEntries ==
    (/\ extOut.op = "_extract_with_box_ai"
     /\ Answered
     /\ ~HasList(extIn.ai.json, "fields")
     /\ HasAnswerObject(extIn.ai.json)
     /\ HasEntries(extIn.ai.json)) =>
        /\ extOut.result.success = PyBool(TRUE)
        /\ extOut.result.data = extIn.ai.json.answer

-----------------------------------------------------------------------------
(* BoxMetadataApplicationService.apply_document_type_metadata: the fields  *)
(* the template does not declare as numbers are applied in one call, then  *)
(* every numeric field in a call of its own.                               *)

\* field_key in field_types and field_types[field_key] in ['float', 'int']
IsNumericField(field_types, field_key) ==
    field_key \in DOMAIN field_types /\ field_types[field_key] \in {"float", "int"}

non_numeric_fields(metadata_values, field_types) ==
    [k \in {key \in DOMAIN metadata_values : ~IsNumericField(field_types, key)} |->
        metadata_values[k]]

RECURSIVE numeric_field_keys(_, _, _)
\* numeric_field_keys after the loop over metadata_values.items()[i..];
\* order is the insertion order of the keys of metadata_values
numeric_field_keys(order, i, field_types) ==
    IF i > Len(order) THEN << >>
    ELSE (IF IsNumericField(field_types, order[i]) THEN <<order[i]>> ELSE << >>)
            \o numeric_field_keys(order, i + 1, field_types)

RECURSIVE SingleFields(_, _, _)
\* {field_key: field_value} for keys[i..]
SingleFields(metadata_values, keys, i) ==
    IF i > Len(keys) THEN << >>
    ELSE <<keys[i] :> metadata_values[keys[i]]>> \o SingleFields(metadata_values, keys, i + 1)

\* the mappings handed to _apply_metadata, in the order of the calls
CallsToMake(metadata_values, order, field_types) ==
    (IF DOMAIN non_numeric_fields(metadata_values, field_types) # {}
     THEN <<non_numeric_fields(metadata_values, field_types)>>
     ELSE << >>)
        \o SingleFields(metadata_values, numeric_field_keys(order, 1, field_types), 1)

RECURSIVE ApplyInTurn(_, _, _, _, _)
\* the calls made so far, followed by the calls for the rest of metadata;
\* each call meets the record the call before it left, and answers[n] is how
\* the store answers call n.  No result is inspected before the next call.
ApplyInTurn(calls, record, template_key, metadata, answers) ==
    IF Len(calls) = Len(metadata) THEN calls
    ELSE ApplyInTurn(
            Append(calls,
                   [metadata |-> metadata[Len(calls) + 1]] @@
                   _apply_metadata(IF Len(calls) = 0 THEN record ELSE calls[Len(calls)].record,
                                   template_key, metadata[Len(calls) + 1],
                                   answers[Len(calls) + 1].schema,
                                   answers[Len(calls) + 1].post,
                                   answers[Len(calls) + 1].put)),
            record, template_key, metadata, answers)

\* success_count: the calls from position first on that returned success
SuccessCount(calls, first) ==
    Cardinality({i \in first..Len(calls) : calls[i].result.success})

\* mutant: the result of the non-numeric call is not read
overall_success_numeric_only(has_non_numeric, non_numeric_success, success_count, numeric_total) ==
    IF numeric_total > 0 THEN success_count = numeric_total ELSE TRUE

overall_success(has_non_numeric, non_numeric_success, success_count, numeric_total) ==
    /\ IF has_non_numeric THEN non_numeric_success ELSE TRUE
    /\ IF numeric_total > 0 THEN success_count = numeric_total ELSE TRUE

\* the returned dictionary after the calls
TypeResult(calls, has_non_numeric, numeric_total) ==
    [success |-> overall_success(has_non_numeric,
                                 has_non_numeric /\ calls[1].result.success,
                                 SuccessCount(calls, IF has_non_numeric THEN 2 ELSE 1),
                                 numeric_total),
     message |-> "metadata applied",
     numeric_success_count |-> SuccessCount(calls, IF has_non_numeric THEN 2 ELSE 1),
     numeric_total |-> numeric_total]

\* from "Get template field types" on
ApplyFields(record, template_key, metadata_values, order, field_types, answers) ==
    IF DOMAIN metadata_values = {}
    THEN [calls |-> << >>, result |-> Result(FALSE, "No valid metadata fields to apply")]
    ELSE \* the calls first, then the result computed from them
         CHOOSE r \in
            {[calls |-> calls,
              result |-> TypeResult(calls,
                                    DOMAIN non_numeric_fields(metadata_values, field_types) # {},
                                    Len(numeric_field_keys(order, 1, field_types)))] :
                calls \in {ApplyInTurn(<< >>, record, template_key,
                                       CallsToMake(metadata_values, order, field_types),
                                       answers)}} : TRUE

\* schema is how the schema request of apply_document_type_metadata itself ends
apply_document_type_metadata(record, document_type, extracted_metadata, order, schema, answers) ==
    IF NoTemplateKey(_get_template_key_for_document_type_application(document_type))
    THEN [calls |-> << >>, result |-> Result(FALSE, "No template for")]
    ELSE IF DOMAIN extracted_metadata = {}
    THEN [calls |-> << >>, result |-> Result(FALSE, "No metadata to apply")]
    ELSE IF _extract_metadata_values(extracted_metadata).t # "dict"
    THEN [calls |-> << >>, result |-> Result(FALSE, "str(e)")]
    ELSE ApplyFields(record,
                     _get_template_key_for_document_type_application(document_type).name,
                     _extract_metadata_values(extracted_metadata).d,
                     order,
                     _get_template_field_types(
                         _get_template_key_for_document_type_application(document_type).name,
                         schema),
                     answers)

-----------------------------------------------------------------------------
(* Specification of apply_document_type_metadata against the store         *)

MaxRuns == 2

TypeFile == "f1"

\* the document type whose template declares numeric fields
TypeDocumentTypes == {PyStr(Str_W2)}

Str_Ein == <<"X","X","-","1","2","3","4">>
Str_Wages == <<"1","2",".","5","0">>

W2Values ==
    ("employerEinMasked" :> PyStr(Str_Ein)) @@ ("box1Wages" :> PyStr(Str_Wages))
        @@ ("box2FederalWithholding" :> PyInt(3))

\* what the caller hands over, with the insertion order of the keys of the
\* mapping the fields are read from
TypeInputs ==
    {[extracted_metadata |-> W2Values,
      order |-> <<"employerEinMasked", "box1Wages", "box2FederalWithholding">>],
     [extracted_metadata |-> W2Values,
      order |-> <<"box2FederalWithholding", "employerEinMasked", "box1Wages">>],
     [extracted_metadata |-> [success |-> PyBool(TRUE), data |-> PyDict(W2Values)],
      order |-> <<"box1Wages", "box2FederalWithholding", "employerEinMasked">>],
     [extracted_metadata |-> ("box1Wages" :> PyStr(Str_Wages)) @@ ("box2FederalWithholding" :> PyNone),
      order |-> <<"box1Wages", "box2FederalWithholding">>],
     [extracted_metadata |-> ("employerEinMasked" :> PyStr(Str_Ein)),
      order |-> <<"employerEinMasked">>],
     [extracted_metadata |-> ("employerEinMasked" :> PyNone) @@ ("box1Wages" :> PyInt(3)),
      order |-> <<"employerEinMasked", "box1Wages">>],
     [extracted_metadata |-> [success |-> PyBool(TRUE), data |-> PyDict(EmptyDict)],
      order |-> << >>],
     [extracted_metadata |-> EmptyDict, order |-> << >>]}

\* how the store answers one _apply_metadata call: it accepts, it refuses
\* the create with an error status, or it refuses the update
CallAnswers ==
    {[schema |-> "ok", post |-> "store_status", put |-> "store"],
     [schema |-> "ok", post |-> "status_other", put |-> "store"],
     [schema |-> "error", post |-> "store_raise", put |-> "status_other"]}

\* non-numeric call, then at most two numeric calls
MaxCalls == 3

TypeAnswers == [1..MaxCalls -> CallAnswers]

InitApplyType ==
    /\ remote \in {[f \in {TypeFile} |-> [t \in {"irsw2"} |-> record]] :
                      record \in {NoRecord, "employerEinMasked" :> PyStr(<<"o","l","d">>)}}
    /\ lastCall = [runs |-> 0]
    /\ IdleLedger /\ IdleCls /\ IdleSan /\ IdleExt /\ IdlePipe /\ IdleConc

ApplyDocumentTypeMetadata ==
    /\ lastCall.runs < MaxRuns
    /\ \E document_type \in TypeDocumentTypes, in \in TypeInputs,
          schema \in SchemaAnswers, answers \in TypeAnswers :
          \E r \in {apply_document_type_metadata(remote[TypeFile]["irsw2"], document_type,
                                                 in.extracted_metadata, in.order, schema,
                                                 answers)} :
              /\ remote' = [remote EXCEPT ![TypeFile]["irsw2"] =
                                IF Len(r.calls) = 0 THEN @ ELSE r.calls[Len(r.calls)].record]
              /\ lastCall' = [runs |-> lastCall.runs + 1,
                              extracted_metadata |-> in.extracted_metadata,
                              order |-> in.order,
                              field_types |-> _get_template_field_types("irsw2", schema),
                              calls |-> r.calls,
                              result |-> r.result]
    /\ UNCHANGED <<ledgerVars, clsVars, sanVars, extVars, pipe, concVars>>

NextApplyType == ApplyDocumentTypeMetadata

SpecApplyType == InitApplyType /\ [][NextApplyType]_vars

-----------------------------------------------------------------------------
(* Claims about apply_document_type_metadata                               *)

\* the fields of the last run, as the apply operation reads them
RunValues == _extract_metadata_values(lastCall.extracted_metadata).d

RunNonNumeric == non_numeric_fields(RunValues, lastCall.field_types)

RunNumericKeys == numeric_field_keys(lastCall.order, 1, lastCall.field_types)

\* position of the first numeric call
FirstNumeric == IF DOMAIN RunNonNumeric # {} THEN 2 ELSE 1

\* one call for the non-numeric fields, if there are any, comes first, and
\* one call for every numeric field follows, whatever the calls before it
\* returned
PhasedCalls ==
    /\ Len(lastCall.calls) = FirstNumeric - 1 + Len(RunNumericKeys)
    /\ DOMAIN RunNonNumeric # {} => lastCall.calls[1].metadata = RunNonNumeric
    /\ \A i \in 1..Len(RunNumericKeys) :
          lastCall.calls[FirstNumeric - 1 + i].metadata
              = (RunNumericKeys[i] :> RunValues[RunNumericKeys[i]])

\* success exactly when every call made returned success
SuccessIffAllSucceeded ==
    lastCall.result.success <=>
        \A i \in 1..Len(lastCall.calls) : lastCall.calls[i].result.success

====
